---- MODULE Spec2Model ----
(***************************************************************************)
(* Hotel booking server (mcp_server.py): the inventory, the reservation    *)
(* ledger and the tools that read and change them.  Date strings are       *)
(* sequences of one-character strings, compared by code point as Python    *)
(* compares str, and parsed as datetime.strptime(s, "%Y-%m-%d") parses.    *)
(* Locations, amenity tags and the arguments of a search are strings whose *)
(* characters CharsOf lists; ratings are held in tenths.                   *)
(* Workflow (langgraph_agents.py): the graph of nodes that extracts the    *)
(* dates, analyses the query, searches, checks availability and books, as  *)
(* one step per node; the language model and the tool transport are        *)
(* collaborators whose answers are chosen from small sets.                 *)
(* Callers of the module-level functions share the global instance that   *)
(* get_workflow creates; a step of a caller is the code it runs between    *)
(* two suspensions.                                                        *)
(***************************************************************************)
EXTENDS Integers, Sequences, FiniteSets, TLC

VARIABLES HOTELS, ROOMS, BOOKINGS, req, result,
          state, node, blocked, today, mcp_client, tools, runs,
          workflow_instance, pc, answer

vars ==
  <<HOTELS, ROOMS, BOOKINGS, req, result,
    state, node, blocked, today, mcp_client, tools, runs,
    workflow_instance, pc, answer>>

\* the global _workflow_instance (is it set), and for each caller of the
\* module-level functions where it stands and what it was answered
callers == <<workflow_instance, pc, answer>>

\* the variables of the workflow module (langgraph_agents.py)
workflow ==
  <<state, node, blocked, today, mcp_client, tools, runs,
    workflow_instance, pc, answer>>

(* ---- bounds ---- *)
\* number of bookings a behaviour may add to the seed ledger
MaxNew == 2

\* number of workflow runs a behaviour may start
MaxRuns == 2

\* number of concurrent callers of the module-level functions
MaxCallers == 2

(* ---- Python str ---- *)
DigitChars == {"0", "1", "2", "3", "4", "5", "6", "7", "8", "9"}

\* code points of the characters that occur in the date strings
CharCode ==
  [c \in DigitChars \cup {" ", "-", "t", "o"} |->
     CASE c = " " -> 32
       [] c = "-" -> 45
       [] c = "0" -> 48 [] c = "1" -> 49 [] c = "2" -> 50 [] c = "3" -> 51
       [] c = "4" -> 52 [] c = "5" -> 53 [] c = "6" -> 54 [] c = "7" -> 55
       [] c = "8" -> 56 [] c = "9" -> 57
       [] c = "o" -> 111
       [] c = "t" -> 116]

\* s[i..] < t[i..] for Python str, given s and t agree before i: the first
\* differing character decides, a proper prefix is smaller
RECURSIVE StrLTFrom(_, _, _)
StrLTFrom(s, t, i) ==
  IF i > Len(t) THEN FALSE
  ELSE IF i > Len(s) THEN TRUE
  ELSE IF s[i] = t[i] THEN StrLTFrom(s, t, i + 1)
  ELSE CharCode[s[i]] < CharCode[t[i]]

StrLT(s, t) == StrLTFrom(s, t, 1)

\* s <= t and s >= t for Python str
StrLE(s, t) == s = t \/ StrLT(s, t)

StrGE(s, t) == s = t \/ StrLT(t, s)

(* ---- datetime.strptime(s, "%Y-%m-%d") ---- *)
\* the character at position i, or "" past the end
At(s, i) == IF i >= 1 /\ i <= Len(s) THEN s[i] ELSE ""

DigitVal(c) == CharCode[c] - 48

\* the lengths, in the order the regex tries them, of the alternatives of
\* %m = 1[0-2]|0[1-9]|[1-9] that match at position p
MonthLens(s, p) ==
  (IF At(s, p) = "1" /\ At(s, p + 1) \in {"0", "1", "2"} THEN <<2>> ELSE <<>>)
  \o (IF At(s, p) = "0" /\ At(s, p + 1) \in DigitChars \ {"0"} THEN <<2>> ELSE <<>>)
  \o (IF At(s, p) \in DigitChars \ {"0"} THEN <<1>> ELSE <<>>)

\* the same for %d = 3[0-1]|[1-2]\d|0[1-9]|[1-9]| [1-9]
DayLens(s, q) ==
  (IF At(s, q) = "3" /\ At(s, q + 1) \in {"0", "1"} THEN <<2>> ELSE <<>>)
  \o (IF At(s, q) \in {"1", "2"} /\ At(s, q + 1) \in DigitChars THEN <<2>> ELSE <<>>)
  \o (IF At(s, q) = "0" /\ At(s, q + 1) \in DigitChars \ {"0"} THEN <<2>> ELSE <<>>)
  \o (IF At(s, q) \in DigitChars \ {"0"} THEN <<1>> ELSE <<>>)
  \o (IF At(s, q) = " " /\ At(s, q + 1) \in DigitChars \ {"0"} THEN <<2>> ELSE <<>>)

\* value of the decimal digits s[p..p+n-1]; a leading blank counts as nothing
RECURSIVE NumAt(_, _, _)
NumAt(s, p, n) ==
  IF n = 0 THEN 0
  ELSE IF s[p + n - 1] = " " THEN NumAt(s, p, n - 1)
  ELSE 10 * NumAt(s, p, n - 1) + DigitVal(s[p + n - 1])

\* the month alternatives after which "-" and a day follow
MonthFits(s) ==
  SelectSeq(MonthLens(s, 6),
            LAMBDA ml : At(s, 6 + ml) = "-" /\ DayLens(s, 7 + ml) # <<>>)

\* the four digits of %Y and the "-" after them
YearMatches(s) ==
  /\ \A i \in 1..4 : At(s, i) \in DigitChars
  /\ At(s, 5) = "-"

IsLeap(y) == y % 4 = 0 /\ (y % 100 # 0 \/ y % 400 = 0)

DaysInMonth(y, m) ==
  IF m = 2 THEN (IF IsLeap(y) THEN 29 ELSE 28)
  ELSE IF m \in {4, 6, 9, 11} THEN 30 ELSE 31

\* days of the year before the first day of month m
DaysBeforeMonth(y, m) ==
  <<0, 31, 59, 90, 120, 151, 181, 212, 243, 273, 304, 334>>[m]
  + (IF m > 2 /\ IsLeap(y) THEN 1 ELSE 0)

\* proleptic Gregorian ordinal of a date (date.toordinal)
ToOrdinal(y, m, d) ==
  LET p == y - 1
  IN  p * 365 + (p \div 4) - (p \div 100) + (p \div 400)
      + DaysBeforeMonth(y, m) + d

ValueError == [ok |-> FALSE, ord |-> 0]

\* strptime: ValueError when the regex of the format does not match, when
\* data remains after the match, or when the month does not have the day;
\* else the date, as its ordinal
Strptime(s) ==
  IF ~YearMatches(s) THEN ValueError
  ELSE
    LET fits == MonthFits(s)
    IN  IF fits = <<>> THEN ValueError
        ELSE
          LET ml == Head(fits)
              dl == Head(DayLens(s, 7 + ml))
              y  == NumAt(s, 1, 4)
              m  == NumAt(s, 6, ml)
              d  == NumAt(s, 7 + ml, dl)
          IN  IF 6 + ml + dl # Len(s) THEN ValueError
              ELSE IF y < 1 \/ d > DaysInMonth(y, m) THEN ValueError
              ELSE [ok |-> TRUE, ord |-> ToOrdinal(y, m, d)]

(* ---- seed data ---- *)
HotelData ==
  << [id |-> "hotel_1", name |-> "Grand Plaza Hotel", location |-> "New York, NY",
      rating10 |-> 45, amenities |-> <<"WiFi", "Pool", "Gym", "Restaurant", "Spa">>,
      price_per_night |-> 250, available_rooms |-> 15],
     [id |-> "hotel_2", name |-> "Seaside Resort", location |-> "Miami, FL",
      rating10 |-> 42, amenities |-> <<"WiFi", "Beach Access", "Pool", "Restaurant", "Bar">>,
      price_per_night |-> 180, available_rooms |-> 8],
     [id |-> "hotel_3", name |-> "Mountain View Lodge", location |-> "Denver, CO",
      rating10 |-> 40, amenities |-> <<"WiFi", "Fireplace", "Hiking Trails", "Restaurant">>,
      price_per_night |-> 120, available_rooms |-> 12],
     [id |-> "hotel_4", name |-> "Business Center Hotel", location |-> "Chicago, IL",
      rating10 |-> 43, amenities |-> <<"WiFi", "Business Center", "Gym", "Conference Rooms">>,
      price_per_night |-> 200, available_rooms |-> 20],
     [id |-> "hotel_5", name |-> "Historic Inn", location |-> "Boston, MA",
      rating10 |-> 41, amenities |-> <<"WiFi", "Historic Charm", "Restaurant", "Library">>,
      price_per_night |-> 160, available_rooms |-> 6],
     [id |-> "hotel_6", name |-> "Ocean View Resort", location |-> "San Francisco, CA",
      rating10 |-> 44, amenities |-> <<"WiFi", "Beach Access", "Pool", "Restaurant", "Spa">>,
      price_per_night |-> 190, available_rooms |-> 10],
     [id |-> "hotel_7", name |-> "Bay Side Hotel", location |-> "San Francisco, CA",
      rating10 |-> 42, amenities |-> <<"WiFi", "Bay Views", "Restaurant", "Gym">>,
      price_per_night |-> 170, available_rooms |-> 8],
     [id |-> "hotel_8", name |-> "Coastal Inn", location |-> "San Francisco, CA",
      rating10 |-> 40, amenities |-> <<"WiFi", "Beach Nearby", "Restaurant", "Parking">>,
      price_per_night |-> 150, available_rooms |-> 12],
     [id |-> "hotel_9", name |-> "Budget Beach Motel", location |-> "San Francisco, CA",
      rating10 |-> 35, amenities |-> <<"WiFi", "Beach Access", "Parking">>,
      price_per_night |-> 85, available_rooms |-> 15],
     [id |-> "hotel_10", name |-> "Surfer's Paradise Hostel", location |-> "San Francisco, CA",
      rating10 |-> 38, amenities |-> <<"WiFi", "Beach Nearby", "Shared Kitchen", "Lounge">>,
      price_per_night |-> 75, available_rooms |-> 20],
     [id |-> "hotel_11", name |-> "Ocean Breeze Inn", location |-> "San Francisco, CA",
      rating10 |-> 37, amenities |-> <<"WiFi", "Beach View", "Restaurant">>,
      price_per_night |-> 95, available_rooms |-> 10] >>

RoomData ==
  << [id |-> "room_1_1", hotel_id |-> "hotel_1", room_type |-> "Standard",
      capacity |-> 2, price_per_night |-> 250, available |-> TRUE],
     [id |-> "room_1_2", hotel_id |-> "hotel_1", room_type |-> "Deluxe",
      capacity |-> 3, price_per_night |-> 350, available |-> TRUE],
     [id |-> "room_1_3", hotel_id |-> "hotel_1", room_type |-> "Suite",
      capacity |-> 4, price_per_night |-> 500, available |-> TRUE],
     [id |-> "room_2_1", hotel_id |-> "hotel_2", room_type |-> "Ocean View",
      capacity |-> 2, price_per_night |-> 180, available |-> TRUE],
     [id |-> "room_2_2", hotel_id |-> "hotel_2", room_type |-> "Beach Suite",
      capacity |-> 4, price_per_night |-> 280, available |-> TRUE],
     [id |-> "room_3_1", hotel_id |-> "hotel_3", room_type |-> "Cabin",
      capacity |-> 2, price_per_night |-> 120, available |-> TRUE],
     [id |-> "room_3_2", hotel_id |-> "hotel_3", room_type |-> "Family Cabin",
      capacity |-> 6, price_per_night |-> 200, available |-> TRUE],
     [id |-> "room_4_1", hotel_id |-> "hotel_4", room_type |-> "Business",
      capacity |-> 1, price_per_night |-> 200, available |-> TRUE],
     [id |-> "room_4_2", hotel_id |-> "hotel_4", room_type |-> "Executive",
      capacity |-> 2, price_per_night |-> 280, available |-> TRUE],
     [id |-> "room_5_1", hotel_id |-> "hotel_5", room_type |-> "Classic",
      capacity |-> 2, price_per_night |-> 160, available |-> TRUE],
     [id |-> "room_6_1", hotel_id |-> "hotel_6", room_type |-> "Ocean View",
      capacity |-> 2, price_per_night |-> 190, available |-> TRUE],
     [id |-> "room_6_2", hotel_id |-> "hotel_6", room_type |-> "Beach Suite",
      capacity |-> 4, price_per_night |-> 290, available |-> TRUE],
     [id |-> "room_7_1", hotel_id |-> "hotel_7", room_type |-> "Bay View",
      capacity |-> 2, price_per_night |-> 170, available |-> TRUE],
     [id |-> "room_7_2", hotel_id |-> "hotel_7", room_type |-> "Premium Bay",
      capacity |-> 3, price_per_night |-> 220, available |-> TRUE],
     [id |-> "room_8_1", hotel_id |-> "hotel_8", room_type |-> "Standard",
      capacity |-> 2, price_per_night |-> 150, available |-> TRUE],
     [id |-> "room_8_2", hotel_id |-> "hotel_8", room_type |-> "Beach Side",
      capacity |-> 4, price_per_night |-> 180, available |-> TRUE],
     [id |-> "room_9_1", hotel_id |-> "hotel_9", room_type |-> "Economy",
      capacity |-> 2, price_per_night |-> 85, available |-> TRUE],
     [id |-> "room_9_2", hotel_id |-> "hotel_9", room_type |-> "Beachfront",
      capacity |-> 3, price_per_night |-> 95, available |-> TRUE],
     [id |-> "room_10_1", hotel_id |-> "hotel_10", room_type |-> "Dorm Bed",
      capacity |-> 1, price_per_night |-> 75, available |-> TRUE],
     [id |-> "room_10_2", hotel_id |-> "hotel_10", room_type |-> "Private Room",
      capacity |-> 2, price_per_night |-> 90, available |-> TRUE],
     [id |-> "room_11_1", hotel_id |-> "hotel_11", room_type |-> "Standard",
      capacity |-> 2, price_per_night |-> 95, available |-> TRUE],
     [id |-> "room_11_2", hotel_id |-> "hotel_11", room_type |-> "Deluxe Ocean",
      capacity |-> 3, price_per_night |-> 110, available |-> TRUE] >>

BookingData ==
  << [id |-> "booking_001", hotel_id |-> "hotel_1", room_id |-> "room_1_1",
      guest_name |-> "John Smith", guest_email |-> "john.smith@email.com",
      check_in |-> <<"2", "0", "2", "4", "-", "1", "2", "-", "2", "0">>,
      check_out |-> <<"2", "0", "2", "4", "-", "1", "2", "-", "2", "3">>,
      total_price |-> 750, status |-> "confirmed"],
     [id |-> "booking_002", hotel_id |-> "hotel_2", room_id |-> "room_2_1",
      guest_name |-> "Sarah Johnson", guest_email |-> "sarah.j@email.com",
      check_in |-> <<"2", "0", "2", "4", "-", "1", "2", "-", "2", "5">>,
      check_out |-> <<"2", "0", "2", "4", "-", "1", "2", "-", "2", "7">>,
      total_price |-> 360, status |-> "confirmed"],
     [id |-> "booking_003", hotel_id |-> "hotel_6", room_id |-> "room_6_1",
      guest_name |-> "Mike Davis", guest_email |-> "mike.davis@email.com",
      check_in |-> <<"2", "0", "2", "5", "-", "0", "1", "-", "1", "5">>,
      check_out |-> <<"2", "0", "2", "5", "-", "0", "1", "-", "1", "8">>,
      total_price |-> 570, status |-> "confirmed"],
     [id |-> "booking_004", hotel_id |-> "hotel_7", room_id |-> "room_7_1",
      guest_name |-> "Emma Wilson", guest_email |-> "emma.wilson@email.com",
      check_in |-> <<"2", "0", "2", "5", "-", "0", "2", "-", "1", "0">>,
      check_out |-> <<"2", "0", "2", "5", "-", "0", "2", "-", "1", "2">>,
      total_price |-> 340, status |-> "pending"],
     [id |-> "booking_005", hotel_id |-> "hotel_9", room_id |-> "room_9_1",
      guest_name |-> "David Brown", guest_email |-> "david.brown@email.com",
      check_in |-> <<"2", "0", "2", "4", "-", "1", "2", "-", "3", "0">>,
      check_out |-> <<"2", "0", "2", "5", "-", "0", "1", "-", "0", "2">>,
      total_price |-> 255, status |-> "confirmed"] >>

(* ---- the date strings of the model ---- *)
D_12_05 == <<"2", "0", "2", "4", "-", "1", "2", "-", "0", "5">>
D_12_09 == <<"2", "0", "2", "4", "-", "1", "2", "-", "0", "9">>
D_12_9  == <<"2", "0", "2", "4", "-", "1", "2", "-", "9">>
D_12_23 == <<"2", "0", "2", "4", "-", "1", "2", "-", "2", "3">>
\* 31 November, which strptime rejects
D_11_31 == <<"2", "0", "2", "4", "-", "1", "1", "-", "3", "1">>

\* 5, 9 and 23 December 2024, the 9th also without its zero
ValidDateStrings == {D_12_05, D_12_09, D_12_9, D_12_23}

\* the stay of the pending seed booking_004 on room_7_1
D_02_10 == <<"2", "0", "2", "5", "-", "0", "2", "-", "1", "0">>
D_02_12 == <<"2", "0", "2", "5", "-", "0", "2", "-", "1", "2">>


\* every date string that a call passes or that the seed ledger holds
KnownDateStrings ==
  ValidDateStrings \cup {D_11_31, D_02_10, D_02_12}
  \cup {BookingData[i].check_in : i \in 1..Len(BookingData)}
  \cup {BookingData[i].check_out : i \in 1..Len(BookingData)}

\* strptime is a pure function: its value on each date string is computed
\* once and looked up afterwards
ParsedDates == [s \in KnownDateStrings |-> Strptime(s)]

ParseDate(s) == IF s \in KnownDateStrings THEN ParsedDates[s] ELSE Strptime(s)

(* ---- the stores ---- *)
\* index of the first element of seq that satisfies P, 0 if there is none:
\* next((x for x in seq if P(x)), None)
First(seq, P(_)) ==
  IF \E i \in 1..Len(seq) : P(seq[i])
  THEN CHOOSE i \in 1..Len(seq) : P(seq[i]) /\ \A j \in 1..(i - 1) : ~P(seq[j])
  ELSE 0

FindHotel(hotel_id) == First(HOTELS, LAMBDA h : h.id = hotel_id)

\* a slip: the room is not required to belong to the hotel
FindRoomOfHotel_AnyHotel(room_id, hotel_id) ==
  First(ROOMS, LAMBDA r : r.id = room_id)

FindRoomOfHotel(room_id, hotel_id) ==
  First(ROOMS, LAMBDA r : r.id = room_id /\ r.hotel_id = hotel_id)

FindRoom(room_id) == First(ROOMS, LAMBDA r : r.id = room_id)

FindBooking(booking_id) == First(BOOKINGS, LAMBDA b : b.id = booking_id)

ActiveStatuses == {"confirmed", "pending"}

\* a slip: the second comparison is left out
Overlaps_OneSided(check_in, check_out, b) == ~StrLE(check_out, b.check_in)

\* not (check_out <= b.check_in or check_in >= b.check_out), on str
Overlaps(check_in, check_out, b) ==
  ~(StrLE(check_out, b.check_in) \/ StrGE(check_in, b.check_out))

\* the list comprehension conflicting_bookings
ConflictingBookings(room_id, check_in, check_out) ==
  SelectSeq(BOOKINGS,
            LAMBDA b : /\ b.room_id = room_id
                       /\ b.status \in ActiveStatuses
                       /\ Overlaps(check_in, check_out, b))

\* f"{b.check_in} to {b.check_out}"
DateRangeText(b) == b.check_in \o <<" ", "t", "o", " ">> \o b.check_out

MapSeq(seq, F(_)) == [i \in 1..Len(seq) |-> F(seq[i])]

\* (check_out_date - check_in_date).days
Nights(check_in_date, check_out_date) == check_out_date.ord - check_in_date.ord

\* a slip: the nightly price is charged once, whatever the length of the stay
TotalPrice_OneNight(room, nights) == room.price_per_night

\* total_price = room.price_per_night * nights
TotalPrice(room, nights) == room.price_per_night * nights

\* str(uuid.uuid4()): the values it returns are taken to be pairwise
\* distinct; they are named in the order they are generated
Uuid(n) == "uuid_" \o ToString(n)

Uuid4 == Uuid(Len(BOOKINGS) - Len(BookingData) + 1)

(* ---- requests and results ---- *)
NoReq ==
  [op |-> "none", hotel_id |-> "", room_id |-> "", guest_name |-> "",
   guest_email |-> "", check_in |-> <<>>, check_out |-> <<>>, guests |-> 0,
   booking_id |-> "", location |-> "", min_rating10 |-> 0, max_price |-> 0,
   amenities |-> ""]

NoResult ==
  [error |-> "", booking_confirmation |-> <<>>, nights |-> 0,
   conflicting_dates |-> <<>>, available_rooms |-> <<>>,
   previous_status |-> "", new_status |-> "", refund_amount |-> 0,
   hotels |-> <<>>, count |-> 0, hotel |-> <<>>, room |-> <<>>,
   booking |-> <<>>, bookings |-> <<>>, statistics |-> <<>>]

Error(msg) == [NoResult EXCEPT !.error = msg]

ErrHotelNotFound == "Hotel not found"
ErrRoomNotFound == "Room not found"
ErrUnavailable == "Room is not available"
ErrInvalidRange == "Invalid date range"
ErrInvalidFormat == "Invalid date format. Use YYYY-MM-DD"
ErrConflict == "Room is not available for these dates due to existing bookings"
ErrBookingNotFound == "Booking not found"
ErrAlreadyCancelled == "Booking is already cancelled"

(* ---- book_hotel ---- *)
\* a slip: the dates are checked before the room is looked up
BookError_DatesBeforeRoom(hotel_id, room_id, check_in, check_out) ==
  LET hotel == FindHotel(hotel_id)
      room  == FindRoomOfHotel(room_id, hotel_id)
      check_in_date  == ParseDate(check_in)
      check_out_date == ParseDate(check_out)
  IN  IF hotel = 0 THEN ErrHotelNotFound
      ELSE IF ~check_in_date.ok \/ ~check_out_date.ok THEN ErrInvalidFormat
      ELSE IF Nights(check_in_date, check_out_date) <= 0 THEN ErrInvalidRange
      ELSE IF room = 0 THEN ErrRoomNotFound
      ELSE IF ~ROOMS[room].available THEN ErrUnavailable
      ELSE IF ConflictingBookings(room_id, check_in, check_out) # <<>> THEN ErrConflict
      ELSE ""

\* a slip: a stay of no or of negative length is not rejected
BookError_NoRangeCheck(hotel_id, room_id, check_in, check_out) ==
  LET hotel == FindHotel(hotel_id)
      room  == FindRoomOfHotel(room_id, hotel_id)
  IN  IF hotel = 0 THEN ErrHotelNotFound
      ELSE IF room = 0 THEN ErrRoomNotFound
      ELSE IF ~ROOMS[room].available THEN ErrUnavailable
      ELSE IF ~ParseDate(check_in).ok \/ ~ParseDate(check_out).ok THEN ErrInvalidFormat
      ELSE IF ConflictingBookings(room_id, check_in, check_out) # <<>> THEN ErrConflict
      ELSE ""

\* the error book_hotel returns, "" when it books
BookError(hotel_id, room_id, check_in, check_out) ==
  LET hotel == FindHotel(hotel_id)
      room  == FindRoomOfHotel(room_id, hotel_id)
      check_in_date  == ParseDate(check_in)
      check_out_date == ParseDate(check_out)
  IN  IF hotel = 0 THEN ErrHotelNotFound
      ELSE IF room = 0 THEN ErrRoomNotFound
      ELSE IF ~ROOMS[room].available THEN ErrUnavailable
      ELSE IF ~check_in_date.ok \/ ~check_out_date.ok THEN ErrInvalidFormat
      ELSE IF Nights(check_in_date, check_out_date) <= 0 THEN ErrInvalidRange
      ELSE IF ConflictingBookings(room_id, check_in, check_out) # <<>> THEN ErrConflict
      ELSE ""

NewBooking(booking_id, hotel_id, room_id, guest_name, guest_email, check_in, check_out, total_price) ==
  [id |-> booking_id, hotel_id |-> hotel_id, room_id |-> room_id,
   guest_name |-> guest_name, guest_email |-> guest_email,
   check_in |-> check_in, check_out |-> check_out,
   total_price |-> total_price, status |-> "confirmed"]

\* a slip: the booking is appended before the conflict is reported
BookedLedger_AppendOnConflict(err, booking) ==
  IF err # "" /\ err # ErrConflict THEN BOOKINGS ELSE Append(BOOKINGS, booking)

\* the ledger after the call: an early return leaves it alone, else
\* BOOKINGS.append(booking)
BookedLedger(err, booking) ==
  IF err # "" THEN BOOKINGS ELSE Append(BOOKINGS, booking)

book_hotel(hotel_id, room_id, guest_name, guest_email, check_in, check_out) ==
  LET err == BookError(hotel_id, room_id, check_in, check_out)
      room == ROOMS[FindRoomOfHotel(room_id, hotel_id)]
      nights == Nights(ParseDate(check_in), ParseDate(check_out))
      booking == NewBooking(Uuid4, hotel_id, room_id, guest_name, guest_email,
                            check_in, check_out, TotalPrice(room, nights))
  IN  /\ req' = [NoReq EXCEPT !.op = "book_hotel", !.hotel_id = hotel_id,
                              !.room_id = room_id, !.guest_name = guest_name,
                              !.guest_email = guest_email,
                              !.check_in = check_in, !.check_out = check_out]
      /\ IF err # ""
         THEN /\ result' =
                   [Error(err) EXCEPT !.conflicting_dates =
                      IF err = ErrConflict
                      THEN MapSeq(ConflictingBookings(room_id, check_in, check_out),
                                  DateRangeText)
                      ELSE <<>>]
              /\ BOOKINGS' = BookedLedger(err, booking)
              /\ UNCHANGED <<HOTELS, ROOMS>>
         ELSE /\ Len(BOOKINGS) < Len(BookingData) + MaxNew
              /\ BOOKINGS' = BookedLedger(err, booking)
              /\ result' = [NoResult EXCEPT !.booking_confirmation = <<booking>>,
                                            !.nights = nights]
              /\ UNCHANGED <<HOTELS, ROOMS>>

(* ---- cancel_booking ---- *)
\* a slip: the cancelled booking is removed from the ledger
CancelledLedger_Remove(i) ==
  SubSeq(BOOKINGS, 1, i - 1) \o SubSeq(BOOKINGS, i + 1, Len(BOOKINGS))

\* booking.status = "cancelled", on the booking at index i
CancelledLedger(i) == [BOOKINGS EXCEPT ![i].status = "cancelled"]

\* room.available = True on the first room with the booking's room_id
\* cancel_booking with the line-734 assignment writing False instead of True.
RoomsAfterCancel_Clear(room_id) ==
  LET room == FindRoom(room_id)
  IN  IF room # 0 THEN [ROOMS EXCEPT ![room].available = FALSE] ELSE ROOMS

RoomsAfterCancel(room_id) ==
  LET room == FindRoom(room_id)
  IN  IF room # 0 THEN [ROOMS EXCEPT ![room].available = TRUE] ELSE ROOMS

\* cancel_booking without the status check of lines 724-725: a cancelled
\* booking is cancelled (and refunded) again.
cancel_booking_NoCancelledCheck(booking_id) ==
  LET i == FindBooking(booking_id)
  IN  /\ req' = [NoReq EXCEPT !.op = "cancel_booking", !.booking_id = booking_id]
      /\ IF i = 0
         THEN /\ result' = Error(ErrBookingNotFound)
              /\ UNCHANGED <<HOTELS, ROOMS, BOOKINGS>>
         ELSE /\ BOOKINGS' = CancelledLedger(i)
              /\ ROOMS' = RoomsAfterCancel(BOOKINGS[i].room_id)
              /\ result' = [NoResult EXCEPT
                              !.previous_status = BOOKINGS[i].status,
                              !.new_status = "cancelled",
                              !.refund_amount = BOOKINGS[i].total_price]
              /\ UNCHANGED HOTELS

cancel_booking(booking_id) ==
  LET i == FindBooking(booking_id)
  IN  /\ req' = [NoReq EXCEPT !.op = "cancel_booking", !.booking_id = booking_id]
      /\ IF i = 0
         THEN /\ result' = Error(ErrBookingNotFound)
              /\ UNCHANGED <<HOTELS, ROOMS, BOOKINGS>>
         ELSE IF BOOKINGS[i].status = "cancelled"
         THEN /\ result' = Error(ErrAlreadyCancelled)
              /\ UNCHANGED <<HOTELS, ROOMS, BOOKINGS>>
         ELSE /\ BOOKINGS' = CancelledLedger(i)
              /\ ROOMS' = RoomsAfterCancel(BOOKINGS[i].room_id)
              /\ result' = [NoResult EXCEPT
                              !.previous_status = BOOKINGS[i].status,
                              !.new_status = "cancelled",
                              !.refund_amount = BOOKINGS[i].total_price]
              /\ UNCHANGED HOTELS

(* ---- check_availability ---- *)
\* a slip: the ledger is not consulted
AvailableRooms_NoLedger(hotel_id, check_in, check_out, guests) ==
  SelectSeq(ROOMS,
            LAMBDA room : /\ room.hotel_id = hotel_id
                          /\ room.available
                          /\ room.capacity >= guests)

\* the rooms the loop over ROOMS collects, in inventory order
AvailableRooms(hotel_id, check_in, check_out, guests) ==
  SelectSeq(ROOMS,
            LAMBDA room : /\ room.hotel_id = hotel_id
                          /\ room.available
                          /\ room.capacity >= guests
                          /\ ConflictingBookings(room.id, check_in, check_out) = <<>>)

check_availability(hotel_id, check_in, check_out, guests) ==
  /\ req' = [NoReq EXCEPT !.op = "check_availability", !.hotel_id = hotel_id,
                          !.check_in = check_in, !.check_out = check_out,
                          !.guests = guests]
  /\ result' = IF FindHotel(hotel_id) = 0
               THEN Error(ErrHotelNotFound)
               ELSE [NoResult EXCEPT !.available_rooms =
                       AvailableRooms(hotel_id, check_in, check_out, guests)]
  /\ UNCHANGED <<HOTELS, ROOMS, BOOKINGS>>

(* ---- Python str: case, substrings ---- *)

UpperChars ==
  <<"A", "B", "C", "D", "E", "F", "G", "H", "I", "J", "K", "L", "M",
    "N", "O", "P", "Q", "R", "S", "T", "U", "V", "W", "X", "Y", "Z">>

LowerChars ==
  <<"a", "b", "c", "d", "e", "f", "g", "h", "i", "j", "k", "l", "m",
    "n", "o", "p", "q", "r", "s", "t", "u", "v", "w", "x", "y", "z">>

\* str.lower() on one character
LowerChar(c) ==
  IF \E i \in 1..26 : UpperChars[i] = c
  THEN LowerChars[CHOOSE i \in 1..26 : UpperChars[i] = c]
  ELSE c

\* str.lower()
Lower(s) == [i \in 1..Len(s) |-> LowerChar(s[i])]

\* pat occurs in s at position i
MatchesAt(s, pat, i) ==
  /\ i + Len(pat) - 1 <= Len(s)
  /\ \A k \in 1..Len(pat) : s[i + k - 1] = pat[k]

\* pat in s
Contains(s, pat) == \E i \in 1..(Len(s) + 1) : MatchesAt(s, pat, i)

\* smallest element of a non-empty set of integers
Least(S) == CHOOSE i \in S : \A j \in S : i <= j

(* ---- the characters of the str values the search reads ---- *)
\* a location, an amenity tag or an argument of search_hotels is held as a
\* string; its characters are looked up here
CharsOf ==
  "New York, NY" :> <<"N", "e", "w", " ", "Y", "o", "r", "k", ",", " ", "N", "Y">> @@
  "WiFi" :> <<"W", "i", "F", "i">> @@
  "Pool" :> <<"P", "o", "o", "l">> @@
  "Gym" :> <<"G", "y", "m">> @@
  "Restaurant" :> <<"R", "e", "s", "t", "a", "u", "r", "a", "n", "t">> @@
  "Spa" :> <<"S", "p", "a">> @@
  "Miami, FL" :> <<"M", "i", "a", "m", "i", ",", " ", "F", "L">> @@
  "Beach Access" :> <<"B", "e", "a", "c", "h", " ", "A", "c", "c", "e", "s", "s">> @@
  "Bar" :> <<"B", "a", "r">> @@
  "Denver, CO" :> <<"D", "e", "n", "v", "e", "r", ",", " ", "C", "O">> @@
  "Fireplace" :> <<"F", "i", "r", "e", "p", "l", "a", "c", "e">> @@
  "Hiking Trails" :> <<"H", "i", "k", "i", "n", "g", " ", "T", "r", "a", "i", "l", "s">> @@
  "Chicago, IL" :> <<"C", "h", "i", "c", "a", "g", "o", ",", " ", "I", "L">> @@
  "Business Center" :> <<"B", "u", "s", "i", "n", "e", "s", "s", " ", "C", "e", "n", "t", "e", "r">> @@
  "Conference Rooms" :> <<"C", "o", "n", "f", "e", "r", "e", "n", "c", "e", " ", "R", "o", "o", "m", "s">> @@
  "Boston, MA" :> <<"B", "o", "s", "t", "o", "n", ",", " ", "M", "A">> @@
  "Historic Charm" :> <<"H", "i", "s", "t", "o", "r", "i", "c", " ", "C", "h", "a", "r", "m">> @@
  "Library" :> <<"L", "i", "b", "r", "a", "r", "y">> @@
  "San Francisco, CA" :> <<"S", "a", "n", " ", "F", "r", "a", "n", "c", "i", "s", "c", "o", ",", " ", "C", "A">> @@
  "Bay Views" :> <<"B", "a", "y", " ", "V", "i", "e", "w", "s">> @@
  "Beach Nearby" :> <<"B", "e", "a", "c", "h", " ", "N", "e", "a", "r", "b", "y">> @@
  "Parking" :> <<"P", "a", "r", "k", "i", "n", "g">> @@
  "Shared Kitchen" :> <<"S", "h", "a", "r", "e", "d", " ", "K", "i", "t", "c", "h", "e", "n">> @@
  "Lounge" :> <<"L", "o", "u", "n", "g", "e">> @@
  "Beach View" :> <<"B", "e", "a", "c", "h", " ", "V", "i", "e", "w">> @@
  "" :> <<>> @@
  "  " :> <<" ", " ">> @@
  "San Francisco" :> <<"S", "a", "n", " ", "F", "r", "a", "n", "c", "i", "s", "c", "o">> @@
  "san francisco, ca" :> <<"s", "a", "n", " ", "f", "r", "a", "n", "c", "i", "s", "c", "o", ",", " ", "c", "a">> @@
  "CA" :> <<"C", "A">> @@
  "Portland, OR" :> <<"P", "o", "r", "t", "l", "a", "n", "d", ",", " ", "O", "R">> @@
  "Miami Beach" :> <<"M", "i", "a", "m", "i", " ", "B", "e", "a", "c", "h">> @@
  "Paris" :> <<"P", "a", "r", "i", "s">> @@
  " Denver " :> <<" ", "D", "e", "n", "v", "e", "r", " ">> @@
  " , " :> <<" ", ",", " ">> @@
  "spa,beach" :> <<"s", "p", "a", ",", "b", "e", "a", "c", "h">> @@
  "POOL, gym" :> <<"P", "O", "O", "L", ",", " ", "g", "y", "m">> @@
  "sauna" :> <<"s", "a", "u", "n", "a">>

Chars(s) == CharsOf[s]

(* ---- Python str: strip, split ---- *)
RECURSIVE LStrip(_)
LStrip(s) == IF s # <<>> /\ Head(s) = " " THEN LStrip(Tail(s)) ELSE s

RECURSIVE RStrip(_)
RStrip(s) == IF s # <<>> /\ s[Len(s)] = " " THEN RStrip(SubSeq(s, 1, Len(s) - 1)) ELSE s

\* str.strip(); the only whitespace in the strings of the model is the blank
Strip(s) == RStrip(LStrip(s))

\* str.split(",")
RECURSIVE SplitComma(_)
SplitComma(s) ==
  IF \E i \in 1..Len(s) : s[i] = ","
  THEN LET i == Least({k \in 1..Len(s) : s[k] = ","})
       IN  <<SubSeq(s, 1, i - 1)>> \o SplitComma(SubSeq(s, i + 1, Len(s)))
  ELSE <<s>>

(* ---- the searches of the model ---- *)
\* the arguments of search_hotels: min_rating in tenths, 0.0 and 1000.0
\* being the defaults
SearchLocations ==
  {"", "  ", "San Francisco", "san francisco, ca", "CA", "Portland, OR",
   "Miami Beach", "Paris", " Denver "}

SearchRatings == {0, 42, 45}

SearchPrices == {1000, 170, 80}

SearchAmenities == {"", " , ", "spa,beach", "Spa", "POOL, gym", "sauna"}

\* <<location, min_rating10, max_price, amenities>>
SearchInputs == SearchLocations \X SearchRatings \X SearchPrices \X SearchAmenities

(* ---- search_hotels ---- *)
\* [a.strip().lower() for a in amenities.split(",") if a.strip()]
AmenityList(amenities) ==
  MapSeq(SelectSeq(SplitComma(amenities), LAMBDA a : Strip(a) # <<>>),
         LAMBDA a : Lower(Strip(a)))

\* the test of lines 467-475 on a hotel's location: TRUE when the hotel
\* is kept
LocationFilter(hotel_location, location) ==
  LET location_lower       == Strip(Lower(location))
      hotel_location_lower == Lower(hotel_location)
      loc_parts            == SplitComma(location_lower)
  IN  \/ Strip(location) = <<>>
      \/ Contains(hotel_location_lower, location_lower)
      \/ \E i \in 1..Len(loc_parts) :
            /\ Strip(loc_parts[i]) # <<>>
            /\ Contains(hotel_location_lower, Strip(loc_parts[i]))
      \/ Contains(location_lower, Strip(SplitComma(hotel_location_lower)[1]))

\* a slip: every requested amenity has to match
AmenityFilter_All(hotel_amenities, amenity_list) ==
  \/ amenity_list = <<>>
  \/ \A i \in 1..Len(amenity_list) : \E j \in 1..Len(hotel_amenities) :
        Contains(Lower(Chars(hotel_amenities[j])), amenity_list[i])

\* the test of lines 487-499 on a hotel's amenities
AmenityFilter(hotel_amenities, amenity_list) ==
  \/ amenity_list = <<>>
  \/ \E i \in 1..Len(amenity_list) : \E j \in 1..Len(hotel_amenities) :
        Contains(Lower(Chars(hotel_amenities[j])), amenity_list[i])

\* both tests are pure functions of strings: their values on the strings
\* of the model are computed once and looked up afterwards
LocationFilterOf ==
  [hl \in {HotelData[i].location : i \in 1..Len(HotelData)}, l \in SearchLocations |->
     LocationFilter(Chars(hl), Chars(l))]

AmenityFilterOf ==
  [ha \in {HotelData[i].amenities : i \in 1..Len(HotelData)}, a \in SearchAmenities |->
     AmenityFilter(ha, AmenityList(Chars(a)))]

LocationPasses(hotel, location) == LocationFilterOf[hotel.location, location]

AmenityPasses(hotel, amenities) == AmenityFilterOf[hotel.amenities, amenities]

\* a slip: hotel.rating <= min_rating is skipped too
RatingPasses_Strict(hotel, min_rating10) == ~(hotel.rating10 <= min_rating10)

\* the rating filter of lines 479-480, in tenths
RatingPasses(hotel, min_rating10) == ~(hotel.rating10 < min_rating10)

\* the price filter of lines 483-484
PricePasses(hotel, max_price) == ~(hotel.price_per_night > max_price)

\* results, as the loop over HOTELS fills it
SearchedHotels(location, min_rating10, max_price, amenities) ==
  SelectSeq(HOTELS,
            LAMBDA hotel : /\ LocationPasses(hotel, location)
                           /\ RatingPasses(hotel, min_rating10)
                           /\ PricePasses(hotel, max_price)
                           /\ AmenityPasses(hotel, amenities))

search_hotels(location, min_rating10, max_price, amenities) ==
  LET results == SearchedHotels(location, min_rating10, max_price, amenities)
  IN  /\ req' = [NoReq EXCEPT !.op = "search_hotels", !.location = location,
                              !.min_rating10 = min_rating10,
                              !.max_price = max_price, !.amenities = amenities]
      /\ result' = [NoResult EXCEPT !.hotels = results, !.count = Len(results)]
      /\ UNCHANGED <<HOTELS, ROOMS, BOOKINGS>>

(* ---- get_hotel_details ---- *)
get_hotel_details(hotel_id) ==
  LET hotel == FindHotel(hotel_id)
      available_rooms ==
        SelectSeq(ROOMS, LAMBDA room : room.hotel_id = hotel_id /\ room.available)
  IN  /\ req' = [NoReq EXCEPT !.op = "get_hotel_details", !.hotel_id = hotel_id]
      /\ result' = IF hotel = 0
                   THEN Error(ErrHotelNotFound)
                   ELSE [NoResult EXCEPT !.hotel = <<HOTELS[hotel]>>,
                                         !.available_rooms = available_rooms]
      /\ UNCHANGED <<HOTELS, ROOMS, BOOKINGS>>

(* ---- get_booking_details ---- *)
\* x.model_dump() if x else None, None being <<>>
Dumped(seq, i) == IF i = 0 THEN <<>> ELSE <<seq[i]>>

get_booking_details(booking_id) ==
  LET booking == FindBooking(booking_id)
  IN  /\ req' = [NoReq EXCEPT !.op = "get_booking_details",
                              !.booking_id = booking_id]
      /\ result' =
           IF booking = 0
           THEN Error(ErrBookingNotFound)
           ELSE [NoResult EXCEPT
                   !.booking = <<BOOKINGS[booking]>>,
                   !.hotel = Dumped(HOTELS, FindHotel(BOOKINGS[booking].hotel_id)),
                   !.room = Dumped(ROOMS, FindRoom(BOOKINGS[booking].room_id))]
      /\ UNCHANGED <<HOTELS, ROOMS, BOOKINGS>>

(* ---- list_all_bookings ---- *)
\* a slip: the ledger is emptied once it has been listed
list_all_bookings_Clear ==
  /\ req' = [NoReq EXCEPT !.op = "list_all_bookings"]
  /\ result' = [NoResult EXCEPT !.bookings = BOOKINGS]
  /\ BOOKINGS' = <<>>
  /\ UNCHANGED <<HOTELS, ROOMS>>

list_all_bookings ==
  /\ req' = [NoReq EXCEPT !.op = "list_all_bookings"]
  /\ result' = [NoResult EXCEPT !.bookings = BOOKINGS]
  /\ UNCHANGED <<HOTELS, ROOMS, BOOKINGS>>

(* ---- get_booking_statistics ---- *)
WithStatus(status) == SelectSeq(BOOKINGS, LAMBDA b : b.status = status)

RECURSIVE SumOfPrices(_)
SumOfPrices(bookings) ==
  IF bookings = <<>> THEN 0
  ELSE Head(bookings).total_price + SumOfPrices(Tail(bookings))

\* a slip: the pending bookings are counted as revenue too
TotalRevenue_Active ==
  SumOfPrices(SelectSeq(BOOKINGS, LAMBDA b : b.status \in ActiveStatuses))

\* sum(b.total_price for b in BOOKINGS if b.status == "confirmed")
TotalRevenue == SumOfPrices(WithStatus("confirmed"))

\* the value of hotel_booking_counts[hotel_id] after the loop of lines 775-779
BookingCount(hotel_id) ==
  Len(SelectSeq(BOOKINGS, LAMBDA b : b.hotel_id = hotel_id /\ b.status \in ActiveStatuses))

\* the keys of hotel_booking_counts in the order a dict keeps them: that of
\* the first active booking of each hotel
CountedHotels ==
  LET firsts == {i \in 1..Len(BOOKINGS) :
                   /\ BOOKINGS[i].status \in ActiveStatuses
                   /\ \A j \in 1..(i - 1) :
                        ~(BOOKINGS[j].status \in ActiveStatuses
                          /\ BOOKINGS[j].hotel_id = BOOKINGS[i].hotel_id)}
      Nth[k \in 1..Cardinality(firsts)] ==
        CHOOSE i \in firsts : Cardinality({j \in firsts : j < i}) = k - 1
  IN  [k \in 1..Cardinality(firsts) |-> BOOKINGS[Nth[k]].hotel_id]

\* sorted(..., key=lambda x: x[1], reverse=True): by count, the larger
\* first; the sort is stable, so equal counts keep the order of the dict
SortedByCount(keys) ==
  LET Rank(p) ==
        Cardinality({q \in 1..Len(keys) :
                       \/ BookingCount(keys[q]) > BookingCount(keys[p])
                       \/ BookingCount(keys[q]) = BookingCount(keys[p]) /\ q < p})
  IN  [k \in 1..Len(keys) |-> keys[CHOOSE p \in 1..Len(keys) : Rank(p) = k - 1]]

\* popular_hotels[:5] of lines 781-795
MostPopularHotels ==
  LET popular_hotels ==
        MapSeq(SelectSeq(SortedByCount(CountedHotels),
                         LAMBDA hotel_id : FindHotel(hotel_id) # 0),
               LAMBDA hotel_id : [hotel_name |-> HOTELS[FindHotel(hotel_id)].name,
                                  booking_count |-> BookingCount(hotel_id)])
  IN  SubSeq(popular_hotels, 1, IF Len(popular_hotels) < 5 THEN Len(popular_hotels) ELSE 5)

get_booking_statistics ==
  /\ req' = [NoReq EXCEPT !.op = "get_booking_statistics"]
  /\ result' = [NoResult EXCEPT !.statistics =
                  <<[total_bookings      |-> Len(BOOKINGS),
                     confirmed_bookings  |-> Len(WithStatus("confirmed")),
                     pending_bookings    |-> Len(WithStatus("pending")),
                     cancelled_bookings  |-> Len(WithStatus("cancelled")),
                     total_revenue       |-> TotalRevenue,
                     most_popular_hotels |-> MostPopularHotels]>>]
  /\ UNCHANGED <<HOTELS, ROOMS, BOOKINGS>>

(* ---- the words the workflow looks for ---- *)

\* month_patterns, in the order the dict is iterated
month_patterns ==
  << [name |-> <<"j", "a", "n", "u", "a", "r", "y">>, num |-> 1],
     [name |-> <<"j", "a", "n">>, num |-> 1],
     [name |-> <<"f", "e", "b", "r", "u", "a", "r", "y">>, num |-> 2],
     [name |-> <<"f", "e", "b">>, num |-> 2],
     [name |-> <<"m", "a", "r", "c", "h">>, num |-> 3],
     [name |-> <<"m", "a", "r">>, num |-> 3],
     [name |-> <<"a", "p", "r", "i", "l">>, num |-> 4],
     [name |-> <<"a", "p", "r">>, num |-> 4],
     [name |-> <<"m", "a", "y">>, num |-> 5],
     [name |-> <<"j", "u", "n", "e">>, num |-> 6],
     [name |-> <<"j", "u", "n">>, num |-> 6],
     [name |-> <<"j", "u", "l", "y">>, num |-> 7],
     [name |-> <<"j", "u", "l">>, num |-> 7],
     [name |-> <<"a", "u", "g", "u", "s", "t">>, num |-> 8],
     [name |-> <<"a", "u", "g">>, num |-> 8],
     [name |-> <<"s", "e", "p", "t", "e", "m", "b", "e", "r">>, num |-> 9],
     [name |-> <<"s", "e", "p">>, num |-> 9],
     [name |-> <<"o", "c", "t", "o", "b", "e", "r">>, num |-> 10],
     [name |-> <<"o", "c", "t">>, num |-> 10],
     [name |-> <<"n", "o", "v", "e", "m", "b", "e", "r">>, num |-> 11],
     [name |-> <<"n", "o", "v">>, num |-> 11],
     [name |-> <<"d", "e", "c", "e", "m", "b", "e", "r">>, num |-> 12],
     [name |-> <<"d", "e", "c">>, num |-> 12] >>

hotel_keywords ==
  { <<"h", "o", "t", "e", "l">>,
    <<"b", "o", "o", "k", "i", "n", "g">>,
    <<"b", "o", "o", "k">>,
    <<"s", "t", "a", "y">>,
    <<"r", "e", "s", "e", "r", "v", "a", "t", "i", "o", "n">>,
    <<"r", "o", "o", "m">> }

\* location_map, in the order the dict is iterated
location_map ==
  << [key |-> <<"s", "f">>, value |-> "San Francisco, CA"],
     [key |-> <<"s", "a", "n", " ", "f", "r", "a", "n", "c", "i", "s", "c", "o">>, value |-> "San Francisco, CA"],
     [key |-> <<"n", "y", "c">>, value |-> "New York, NY"],
     [key |-> <<"n", "e", "w", " ", "y", "o", "r", "k">>, value |-> "New York, NY"],
     [key |-> <<"m", "i", "a", "m", "i">>, value |-> "Miami, FL"],
     [key |-> <<"l", "a">>, value |-> "Los Angeles, CA"],
     [key |-> <<"d", "e", "n", "v", "e", "r">>, value |-> "Denver, CO"],
     [key |-> <<"c", "h", "i", "c", "a", "g", "o">>, value |-> "Chicago, IL"],
     [key |-> <<"b", "o", "s", "t", "o", "n">>, value |-> "Boston, MA"] >>

beach_words ==
  { <<"b", "e", "a", "c", "h">>,
    <<"o", "c", "e", "a", "n">>, <<"s", "e", "a">>,
    <<"w", "a", "t", "e", "r">> }

spa_word == <<"s", "p", "a">>

gym_word == <<"g", "y", "m">>

(* ---- the queries of the model ---- *)

\* "Book a hotel in SF from March 5 2026"
Query_BookMarch ==
  <<"B", "o", "o", "k", " ", "a", " ", "h", "o", "t", "e",
     "l", " ", "i", "n", " ", "S", "F", " ", "f", "r", "o", "m", " ", "M",
     "a", "r", "c", "h", " ", "5", " ", "2", "0", "2", "6">>

\* "find a room near the beach under $200"
Query_Beach ==
  <<"f", "i", "n", "d", " ", "a", " ", "r", "o", "o", "m",
     " ", "n", "e", "a", "r", " ", "t", "h", "e", " ", "b", "e", "a", "c",
     "h", " ", "u", "n", "d", "e", "r", " ", "$", "2", "0", "0">>

\* "what is the weather like"
Query_Weather ==
  <<"w", "h", "a", "t", " ", "i", "s", " ", "t", "h", "e",
     " ", "w", "e", "a", "t", "h", "e", "r", " ", "l", "i", "k", "e">>

\* "stay feb 30"
Query_Feb30 ==
  <<"s", "t", "a", "y", " ", "f", "e", "b", " ", "3", "0">>

\* "Book Grand Plaza Hotel from 2024-12-05 to 2024-12-09"
Query_BookPlaza ==
  <<"B", "o", "o", "k", " ", "G", "r", "a", "n", "d", " ",
     "P", "l", "a", "z", "a", " ", "H", "o", "t", "e", "l", " ", "f", "r",
     "o", "m", " ", "2", "0", "2", "4", "-", "1", "2", "-", "0", "5", " ",
     "t", "o", " ", "2", "0", "2", "4", "-", "1", "2", "-", "0", "9">>

Queries == {Query_BookMarch, Query_Beach, Query_Weather, Query_Feb30}

(* ---- date arithmetic and strftime("%Y-%m-%d") ---- *)
\* the year of an ordinal (date.fromordinal)
YearOf(ord) ==
  CHOOSE y \in (ord \div 366)..(ord \div 365 + 1) :
    ToOrdinal(y, 1, 1) <= ord /\ ord < ToOrdinal(y + 1, 1, 1)

MonthOf(ord) ==
  LET y == YearOf(ord)
      n == ord - ToOrdinal(y, 1, 1) + 1
  IN  CHOOSE m \in 1..12 :
        DaysBeforeMonth(y, m) < n /\ n <= DaysBeforeMonth(y, m) + DaysInMonth(y, m)

DayOf(ord) == ord - ToOrdinal(YearOf(ord), MonthOf(ord), 1) + 1

DigitChar(n) == <<"0", "1", "2", "3", "4", "5", "6", "7", "8", "9">>[n + 1]

\* the decimal digits of n, zero-padded to width w
RECURSIVE Pad(_, _)
Pad(n, w) == IF w = 0 THEN <<>> ELSE Append(Pad(n \div 10, w - 1), DigitChar(n % 10))

Strftime(ord) ==
  Pad(YearOf(ord), 4) \o <<"-">> \o Pad(MonthOf(ord), 2) \o <<"-">> \o Pad(DayOf(ord), 2)

(* ---- _intelligent_date_fallback ---- *)
\* re.search(r"20\d{2}", query) matches at position i
YearMatchAt(query, i) ==
  /\ At(query, i) = "2" /\ At(query, i + 1) = "0"
  /\ At(query, i + 2) \in DigitChars /\ At(query, i + 3) \in DigitChars

\* target_year: the first 20dd of the query, else 2025
TargetYear(query) ==
  LET hits == {i \in 1..Len(query) : YearMatchAt(query, i)}
  IN  IF hits = {} THEN 2025 ELSE NumAt(query, Least(hits), 4)

\* index in month_patterns of the first month name that occurs in the
\* lowercased query, 0 if none does
FoundMonthIndex(query_lower) ==
  LET hits == {k \in 1..Len(month_patterns) :
                 Contains(query_lower, month_patterns[k].name)}
  IN  IF hits = {} THEN 0 ELSE Least(hits)

\* the position after the blanks that start at p
RECURSIVE SkipSpaces(_, _)
SkipSpaces(s, p) == IF At(s, p) = " " THEN SkipSpaces(s, p + 1) ELSE p

\* rf"{month_name}\s+(\d{1,2})" matches at position i
DayMatchAt(s, month_name, i) ==
  /\ MatchesAt(s, month_name, i)
  /\ LET p == SkipSpaces(s, i + Len(month_name))
     IN  p > i + Len(month_name) /\ At(s, p) \in DigitChars

\* found_day: the one or two digits of the first match, 0 for no match
FoundDay(query_lower, month_name) ==
  LET hits == {i \in 1..Len(query_lower) : DayMatchAt(query_lower, month_name, i)}
  IN  IF hits = {} THEN 0
      ELSE LET p == SkipSpaces(query_lower, Least(hits) + Len(month_name))
           IN  NumAt(query_lower, p,
                     IF At(query_lower, p + 1) \in DigitChars THEN 2 ELSE 1)

\* the dates a stay of two nights from ordinal check_in gives
FallbackDates(check_in, confidence, method) ==
  [check_in |-> Strftime(check_in), check_out |-> Strftime(check_in + 2),
   confidence |-> confidence, method |-> method]

\* _intelligent_date_fallback with "today + 7 days" in every case
intelligent_date_fallback_AlwaysDefault(query, today_ord) ==
  FallbackDates(today_ord + 7, "low", "default_fallback")

intelligent_date_fallback(query, today_ord) ==
  LET target_year == TargetYear(query)
      query_lower == Lower(query)
      k           == FoundMonthIndex(query_lower)
      found_month == IF k = 0 THEN 0 ELSE month_patterns[k].num
      found_day   == IF k = 0 THEN 0
                     ELSE FoundDay(query_lower, month_patterns[k].name)
  IN  IF /\ found_month # 0 /\ found_day # 0
         /\ found_day <= DaysInMonth(target_year, found_month)
      THEN FallbackDates(ToOrdinal(target_year, found_month, found_day),
                         "medium", "regex_fallback")
      ELSE FallbackDates(today_ord + 7, "low", "default_fallback")

(* ---- the workflow state (HotelBookingState) ---- *)
\* A dict is a record with every key the workflow reads; a key that is
\* absent holds <<>> (sequences), "" (strings) or FALSE.  A JSON null is
\* JsonNull, which no date string equals.
JsonNull == <<"null">>

NoDates == [check_in |-> <<>>, check_out |-> <<>>, confidence |-> "", method |-> ""]

NoArgs ==
  [location |-> "", max_price |-> 0, amenities |-> "", min_rating10 |-> 0,
   booking_id |-> ""]

NoSearchParameters == [has_hotel_intent |-> FALSE, tool_calls |-> <<>>, intent_type |-> ""]

NoSearchResults == [hotels |-> <<>>, message |-> "", type |-> ""]

NoHotel == [id |-> "", name |-> "", availability_result |-> <<>>]

NoGuest == [name |-> "", email |-> ""]

NoBookingResult == [success |-> FALSE, result |-> <<>>, hotel_name |-> ""]

\* the dict of a hotel as search_hotels returns it (model_dump)
HotelDict(h) == [id |-> h.id, name |-> h.name, availability_result |-> <<>>]

\* the names of the tools mcp_client.get_tools() loads
AllTools ==
  {"search_hotels", "get_hotel_details", "check_availability", "book_hotel",
   "get_booking_details", "cancel_booking", "list_all_bookings",
   "get_booking_statistics"}

\* initial_state of run_search_workflow and run_booking_workflow
InitialState(user_query, search_parameters, search_results, selected_hotel, guest_info) ==
  [user_query        |-> user_query,
   extracted_dates   |-> NoDates,
   search_parameters |-> search_parameters,
   search_results    |-> search_results,
   selected_hotel    |-> selected_hotel,
   guest_info        |-> guest_info,
   booking_result    |-> NoBookingResult,
   current_step      |-> "starting",
   error_message     |-> "",
   workflow_complete |-> FALSE,
   debug_info        |-> <<>>]

\* debug_info.append(...), for the entries a stage appends in order
Logged_Replace(debug_info, entries) == entries

Logged(debug_info, entries) == debug_info \o entries

(* ---- conditional edges ---- *)
\* should_search_hotels without the error check of lines 706-707
should_search_hotels_NoErrorCheck(s) ==
  IF s.search_parameters.has_hotel_intent THEN "search" ELSE "end"

should_search_hotels(s) ==
  IF s.error_message # "" THEN "error"
  ELSE IF s.search_parameters.has_hotel_intent THEN "search"
  ELSE "end"

\* should_check_availability that goes on whenever the search did not fail
should_check_availability_Always(s) ==
  IF s.error_message # "" THEN "error" ELSE "check_availability"

should_check_availability(s) ==
  IF s.error_message # "" THEN "error"
  ELSE IF s.search_results.hotels # <<>> THEN "check_availability"
  ELSE "end"

\* should_proceed_to_booking without the guest_info test of line 737
should_proceed_to_booking_NoGuestCheck(s) ==
  IF s.error_message # "" THEN "error"
  ELSE IF s.selected_hotel # NoHotel THEN "book"
  ELSE "end"

should_proceed_to_booking(s) ==
  IF s.error_message # "" THEN "error"
  ELSE IF /\ s.selected_hotel # NoHotel
          /\ s.guest_info.name # ""
          /\ s.guest_info.email # ""
       THEN "book"
  ELSE "end"

\* the edge maps of add_conditional_edges
AfterQueryAnalyzer(s) ==
  [search |-> "hotel_searcher", error |-> "error_handler", end |-> "END"]
    [should_search_hotels(s)]

AfterHotelSearcher(s) ==
  [check_availability |-> "availability_checker", error |-> "error_handler",
   end |-> "END"][should_check_availability(s)]

\* a slip: a run without a booking goes back to the search
AfterAvailabilityChecker_SearchAgain(s) ==
  [book |-> "booking_executor", end |-> "hotel_searcher", error |-> "error_handler"]
    [should_proceed_to_booking(s)]

AfterAvailabilityChecker(s) ==
  [book |-> "booking_executor", end |-> "END", error |-> "error_handler"]
    [should_proceed_to_booking(s)]

(* ---- what the collaborators answer ---- *)
server == <<HOTELS, ROOMS, BOOKINGS, req, result>>

client == <<mcp_client, tools>>

\* An awaited call returns, raises, or never completes.  The content of the
\* date extractor's answer is text json.loads rejects, or a JSON object
\* with some of the keys check_in, check_out, confidence.
DateResponse(kind, check_in, check_out, confidence) ==
  [kind |-> kind, check_in |-> check_in, check_out |-> check_out,
   confidence |-> confidence]

DateResponses ==
  { DateResponse("raises", <<>>, <<>>, ""),
    DateResponse("never", <<>>, <<>>, ""),
    DateResponse("text", <<>>, <<>>, ""),
    DateResponse("json", D_12_05, D_12_09, "high"),
    DateResponse("json", D_12_05, D_12_09, ""),
    DateResponse("json", JsonNull, JsonNull, "low") }

\* the answer of llm_with_tools: a message with at most one tool call
ToolCall(name, args) == [name |-> name, args |-> args]

IntentToolCalls ==
  { <<>>,
    <<ToolCall("search_hotels",
               [NoArgs EXCEPT !.location = "San Francisco", !.max_price = 200])>>,
    <<ToolCall("cancel_booking", [NoArgs EXCEPT !.booking_id = "booking_001"])>>,
    <<ToolCall("get_weather", NoArgs)>> }

IntentResponses ==
  {[kind |-> "raises", tool_calls |-> <<>>], [kind |-> "never", tool_calls |-> <<>>]}
  \cup {[kind |-> "message", tool_calls |-> c] : c \in IntentToolCalls}

\* setup_tools: it succeeds, MultiServerMCPClient(...) raises, or
\* get_tools() raises
SetupOutcomes == {"ok", "client_raises", "get_tools_raises"}

\* tool.ainvoke: it returns what the server returns, raises, or never
\* completes
ToolOutcomes == {"ok", "raises", "never"}

\* what search_hotels can return: the hotels that pass the filters of the
\* call, in inventory order; or, for a broken server, text that is not JSON
SearchReturns ==
  { [json |-> TRUE, hotels |-> <<>>],
    [json |-> TRUE, hotels |-> <<HotelDict(HotelData[5])>>],
    [json |-> TRUE, hotels |-> <<HotelDict(HotelData[6]), HotelDict(HotelData[7])>>],
    [json |-> FALSE, hotels |-> <<>>] }

\* datetime.now().date(), as an ordinal
Todays == {ToOrdinal(2024, 11, 28), ToOrdinal(2026, 12, 30)}

(* ---- date_extractor_node ---- *)
\* json.loads succeeds and the three keys the f-string reads are present
DateContentAccepted(response) ==
  /\ response.kind = "json"
  /\ response.check_in # <<>>
  /\ response.check_out # <<>>
  /\ response.confidence # ""

\* the fallback is a pure function of the query and the date: its value is
\* computed once for each and looked up afterwards
FallbackDatesOf ==
  [user_query \in Queries \cup {Query_BookPlaza} |->
     [now \in Todays |-> intelligent_date_fallback(user_query, now)]]

date_extractor_node(now, response) ==
  /\ node = "date_extractor"
  /\ ~blocked
  /\ today' = now
  /\ IF response.kind = "never"
     THEN /\ blocked' = TRUE
          /\ state' = [state EXCEPT
                         !.debug_info = Logged(@, <<"DateExtractor processing">>)]
          /\ UNCHANGED node
     ELSE /\ UNCHANGED blocked
          /\ node' = "query_analyzer"
          /\ IF DateContentAccepted(response)
             THEN state' = [state EXCEPT
                    !.extracted_dates =
                       [check_in |-> response.check_in,
                        check_out |-> response.check_out,
                        confidence |-> response.confidence,
                        method |-> "llm"],
                    !.current_step = "date_extraction_complete",
                    !.debug_info = Logged(@, <<"DateExtractor processing",
                                                "Extracted">>)]
             ELSE state' = [state EXCEPT
                    !.extracted_dates =
                       FallbackDatesOf[state.user_query][now],
                    !.current_step = "date_extraction_fallback",
                    !.debug_info = Logged(@, <<"DateExtractor processing",
                                                "Date extraction failed",
                                                "Using fallback">>)]
  /\ UNCHANGED <<server, client, runs>>

(* ---- query_analyzer_node ---- *)
\* any(word in user_query.lower() for word in hotel_keywords)
HasHotelKeyword(user_query) ==
  \E word \in hotel_keywords : Contains(Lower(user_query), word)

\* the location the fallback searches: the value of the first key of
\* location_map that occurs in the lowercased query, else San Francisco
FallbackLocation(query_lower) ==
  LET hits == {k \in 1..Len(location_map) : Contains(query_lower, location_map[k].key)}
  IN  IF hits = {} THEN "San Francisco, CA" ELSE location_map[Least(hits)].value

\* the end of the run of digits that starts at p
RECURSIVE DigitsEnd(_, _)
DigitsEnd(s, p) == IF At(s, p + 1) \in DigitChars THEN DigitsEnd(s, p + 1) ELSE p

\* re.search(r"\$?(\d+)", user_query): the first run of digits, as a
\* number; -1 for no match
FirstNumber(user_query) ==
  LET hits == {i \in 1..Len(user_query) : user_query[i] \in DigitChars}
  IN  IF hits = {} THEN -1
      ELSE LET p == Least(hits)
           IN  NumAt(user_query, p, DigitsEnd(user_query, p) - p + 1)

FallbackAmenities(query_lower) ==
  IF \E word \in beach_words : Contains(query_lower, word) THEN "Beach Access"
  ELSE IF Contains(query_lower, spa_word) THEN "Spa"
  ELSE IF Contains(query_lower, gym_word) THEN "Gym"
  ELSE ""

\* the tool call the keyword fallback builds
FallbackToolCall(user_query) ==
  LET budget == FirstNumber(user_query)
  IN  ToolCall("search_hotels",
        [NoArgs EXCEPT
           !.location = FallbackLocation(Lower(user_query)),
           !.max_price = IF budget = -1 THEN 1000 ELSE budget,
           !.amenities = FallbackAmenities(Lower(user_query)),
           !.min_rating10 = 30])

\* the entries the keyword fallback appends
FallbackLog(user_query) ==
  IF ~HasHotelKeyword(user_query) THEN <<>>
  ELSE (IF FirstNumber(user_query) # -1 THEN <<"Extracted budget">> ELSE <<>>)
       \o (IF FallbackAmenities(Lower(user_query)) = "Beach Access"
           THEN <<"Detected beach preference">> ELSE <<>>)
       \o <<"Fallback search">>

\* search_params of the except branch of lines 355-447
FallbackSearchParameters(user_query) ==
  IF HasHotelKeyword(user_query)
  THEN [has_hotel_intent |-> TRUE,
        tool_calls |-> <<FallbackToolCall(user_query)>>,
        intent_type |-> "hotel_search"]
  ELSE [has_hotel_intent |-> FALSE, tool_calls |-> <<>>,
        intent_type |-> "conversation"]

\* search_params of lines 341-346
AnalysedSearchParameters(tool_calls) ==
  [has_hotel_intent |-> tool_calls # <<>>,
   tool_calls |-> tool_calls,
   intent_type |-> IF tool_calls # <<>> THEN "hotel_search" ELSE "conversation"]

\* setup_tools (lines 62-81): nothing when the client exists; else the
\* client is created and the tools are loaded, and either step can raise
SetupRaises(setup) == mcp_client = FALSE /\ setup # "ok"

setup_tools(setup) ==
  IF mcp_client THEN UNCHANGED client
  ELSE /\ mcp_client' = (setup # "client_raises")
       /\ tools' = IF setup = "ok" THEN AllTools ELSE tools

\* the keyword fallback is a pure function of the query, looked up likewise
KeywordFallbackOf ==
  [user_query \in Queries \cup {Query_BookPlaza} |->
     [search_parameters |-> FallbackSearchParameters(user_query),
      log |-> FallbackLog(user_query)]]

query_analyzer_node(setup, response) ==
  /\ node = "query_analyzer"
  /\ ~blocked
  /\ setup_tools(setup)
  /\ IF SetupRaises(setup)
     THEN /\ state' = [state EXCEPT
                         !.error_message = "Query analysis failed",
                         !.current_step = "error",
                         !.debug_info = Logged(@, <<"Query Analyzer processing",
                                                     "Query analysis failed">>)]
          /\ node' = AfterQueryAnalyzer(state')
          /\ UNCHANGED blocked
     ELSE IF response.kind = "never"
     THEN /\ blocked' = TRUE
          /\ state' = [state EXCEPT
                         !.debug_info = Logged(@, <<"Query Analyzer processing">>)]
          /\ UNCHANGED node
     ELSE /\ state' =
               IF response.kind = "message"
               THEN [state EXCEPT
                       !.search_parameters = AnalysedSearchParameters(response.tool_calls),
                       !.current_step = "query_analysis_complete",
                       !.debug_info = Logged(@, <<"Query Analyzer processing",
                                                   "Analysis complete">>)]
               ELSE [state EXCEPT
                       !.search_parameters =
                          KeywordFallbackOf[state.user_query].search_parameters,
                       !.current_step = "query_analysis_complete",
                       !.debug_info = Logged(@, <<"Query Analyzer processing",
                                                   "LLM invocation failed">>
                                                 \o KeywordFallbackOf[state.user_query].log)]
          /\ node' = AfterQueryAnalyzer(state')
          /\ UNCHANGED blocked
  /\ UNCHANGED <<server, today, runs>>

(* ---- hotel_searcher_node ---- *)
\* the call a tool invocation makes on the server; the intent answers of
\* the model name no other tool that changes the stores
ServerCall(call) ==
  IF call.name = "cancel_booking"
  THEN cancel_booking(call.args.booking_id)
  ELSE UNCHANGED server

\* search_results of lines 519-524
SearchResults(hotels, message) ==
  [hotels |-> hotels, message |-> message,
   type |-> IF hotels # <<>> THEN "hotel_results" ELSE "no_results"]

FoundMessage(hotels) == "Found " \o ToString(Len(hotels)) \o " hotels"

\* tool_calls has at most one element (IntentToolCalls, FallbackToolCall)
hotel_searcher_node(outcome, returned) ==
  /\ node = "hotel_searcher"
  /\ ~blocked
  /\ LET tool_calls == state.search_parameters.tool_calls
         call       == tool_calls[1]
         parsed     == call.name = "search_hotels" /\ returned.json
         hotels     == IF parsed THEN returned.hotels ELSE <<>>
     IN  IF tool_calls = <<>> \/ call.name \notin tools
         THEN /\ state' = [state EXCEPT
                    !.search_results = SearchResults(<<>>, "No hotels found"),
                    !.current_step = "hotel_search_complete",
                    !.debug_info = Logged(@, <<"Executing tool calls">>
                       \o (IF tool_calls = <<>> THEN <<>>
                           ELSE <<"Calling tool", "Tool not found">>))]
              /\ node' = AfterHotelSearcher(state')
              /\ UNCHANGED <<server, blocked>>
         ELSE IF outcome = "never"
         THEN /\ blocked' = TRUE
              /\ state' = [state EXCEPT
                    !.debug_info = Logged(@, <<"Executing tool calls", "Calling tool">>)]
              /\ UNCHANGED <<node, server>>
         ELSE IF outcome = "raises"
         THEN /\ state' = [state EXCEPT
                    !.error_message = "Hotel search failed",
                    !.current_step = "error",
                    !.debug_info = Logged(@, <<"Executing tool calls", "Calling tool",
                                                "Hotel search failed">>)]
              /\ node' = AfterHotelSearcher(state')
              /\ UNCHANGED <<server, blocked>>
         ELSE /\ ServerCall(call)
              /\ state' = [state EXCEPT
                    !.search_results =
                       SearchResults(hotels, IF parsed THEN FoundMessage(hotels)
                                                       ELSE "No hotels found"),
                    !.current_step = "hotel_search_complete",
                    !.debug_info = Logged(@, <<"Executing tool calls", "Calling tool",
                                                "Tool succeeded">>
                       \o (IF call.name # "search_hotels" THEN <<>>
                           ELSE IF returned.json THEN <<"Parsed hotels">>
                           ELSE <<"Failed to parse hotel results">>))]
              /\ node' = AfterHotelSearcher(state')
              /\ UNCHANGED blocked
  /\ UNCHANGED <<client, today, runs>>

(* ---- availability_checker_node ---- *)
\* a tool rejects a JSON null where its signature says str: the call raises
DatesAreStrings(extracted_dates) ==
  extracted_dates.check_in # JsonNull /\ extracted_dates.check_out # JsonNull

Invocation(outcome, extracted_dates) ==
  IF outcome = "ok" /\ ~DatesAreStrings(extracted_dates) THEN "raises" ELSE outcome

\* a slip: the last hotel of the search result is checked
CheckedHotel_Last(hotels) == hotels[Len(hotels)]

\* hotel = hotels[0]
CheckedHotel(hotels) == hotels[1]

availability_checker_node(outcome) ==
  /\ node = "availability_checker"
  /\ ~blocked
  /\ LET hotels == state.search_results.hotels
         hotel  == CheckedHotel(hotels)
         dates  == state.extracted_dates
     IN  IF hotels = <<>>
         THEN /\ state' = [state EXCEPT
                    !.current_step = "availability_check_skipped",
                    !.debug_info = Logged(@, <<"No hotels to check availability for">>)]
              /\ node' = AfterAvailabilityChecker(state')
              /\ UNCHANGED <<server, blocked>>
         ELSE IF "check_availability" \notin tools
         THEN /\ state' = [state EXCEPT
                    !.selected_hotel = hotel,
                    !.current_step = "availability_check_skipped",
                    !.debug_info = Logged(@, <<"Checking availability",
                                                "Availability check tool not found">>)]
              /\ node' = AfterAvailabilityChecker(state')
              /\ UNCHANGED <<server, blocked>>
         ELSE IF Invocation(outcome, dates) = "never"
         THEN /\ blocked' = TRUE
              /\ state' = [state EXCEPT
                    !.debug_info = Logged(@, <<"Checking availability">>)]
              /\ UNCHANGED <<node, server>>
         ELSE IF Invocation(outcome, dates) = "raises"
         THEN /\ state' = [state EXCEPT
                    !.error_message = "Availability check failed",
                    !.current_step = "error",
                    !.debug_info = Logged(@, <<"Checking availability",
                                                "Availability check failed">>)]
              /\ node' = AfterAvailabilityChecker(state')
              /\ UNCHANGED <<server, blocked>>
         ELSE /\ check_availability(hotel.id, dates.check_in, dates.check_out, 2)
              /\ state' = [state EXCEPT
                    !.selected_hotel = [hotel EXCEPT !.availability_result = <<result'>>],
                    !.current_step = "availability_check_complete",
                    !.debug_info = Logged(@, <<"Checking availability",
                                                "Availability check complete">>)]
              /\ node' = AfterAvailabilityChecker(state')
              /\ UNCHANGED blocked
  /\ UNCHANGED <<client, today, runs>>

(* ---- booking_executor_node ---- *)
\* selected_hotel["id"].replace("hotel_", ""), for the ids of the model
HotelNumber(hotel_id) ==
  IF \E k \in 1..Len(HotelData) : hotel_id = "hotel_" \o ToString(k)
  THEN ToString(CHOOSE k \in 1..Len(HotelData) : hotel_id = "hotel_" \o ToString(k))
  ELSE IF hotel_id = "hotel_x" THEN "x"
  ELSE hotel_id

\* the rooms the availability result lists: none when the key is absent
\* or the result is an error
ListedRooms(selected_hotel) ==
  IF selected_hotel.availability_result = <<>> THEN <<>>
  ELSE selected_hotel.availability_result[1].available_rooms

\* room_id of lines 628-651: the first listed room, else room_<n>_1
BookedRoomId(selected_hotel) ==
  IF ListedRooms(selected_hotel) # <<>>
  THEN ListedRooms(selected_hotel)[1].id
  ELSE "room_" \o HotelNumber(selected_hotel.id) \o "_1"

\* the entries appended before the booking call
BookingLog(selected_hotel) ==
  <<"Booking hotel">>
  \o (IF selected_hotel.availability_result = <<>> THEN <<>>
      ELSE IF ListedRooms(selected_hotel) # <<>> THEN <<"Using available room">>
      ELSE <<"No available rooms found in availability check">>)
  \o (IF ListedRooms(selected_hotel) # <<>> THEN <<>> ELSE <<"Using fallback room">>)
  \o <<"Executing booking">>

booking_executor_node(outcome) ==
  /\ node = "booking_executor"
  /\ ~blocked
  /\ node' = (IF "book_hotel" \in tools /\ Invocation(outcome, state.extracted_dates) = "never"
              THEN node ELSE "END")
  /\ LET selected_hotel == state.selected_hotel
         dates          == state.extracted_dates
     IN  IF "book_hotel" \notin tools
         THEN /\ state' = [state EXCEPT
                    !.error_message = "Booking failed",
                    !.current_step = "error",
                    !.debug_info = Logged(@, <<"Booking hotel", "Booking failed">>)]
              /\ UNCHANGED <<server, blocked>>
         ELSE IF Invocation(outcome, dates) = "never"
         THEN /\ blocked' = TRUE
              /\ state' = [state EXCEPT
                    !.debug_info = Logged(@, BookingLog(selected_hotel))]
              /\ UNCHANGED server
         ELSE IF Invocation(outcome, dates) = "raises"
         THEN /\ state' = [state EXCEPT
                    !.error_message = "Booking failed",
                    !.current_step = "error",
                    !.debug_info = Logged(@, BookingLog(selected_hotel)
                                              \o <<"Booking failed">>)]
              /\ UNCHANGED <<server, blocked>>
         ELSE /\ book_hotel(selected_hotel.id, BookedRoomId(selected_hotel),
                            state.guest_info.name, state.guest_info.email,
                            dates.check_in, dates.check_out)
              /\ state' = [state EXCEPT
                    !.booking_result = [success |-> TRUE, result |-> <<result'>>,
                                        hotel_name |-> selected_hotel.name],
                    !.workflow_complete = TRUE,
                    !.current_step = "booking_complete",
                    !.debug_info = Logged(@, BookingLog(selected_hotel)
                                              \o <<"Booking completed successfully">>)]
              /\ UNCHANGED blocked
  /\ UNCHANGED <<client, today, runs>>

(* ---- error_handler_node ---- *)
error_handler_node ==
  /\ node = "error_handler"
  /\ ~blocked
  /\ state' = [state EXCEPT
                 !.workflow_complete = TRUE,
                 !.current_step = "error_handled",
                 !.debug_info = Logged(@, <<"Error handled">>)]
  /\ node' = "END"
  /\ UNCHANGED <<server, client, blocked, today, runs>>

(* ---- run_search_workflow, run_booking_workflow ---- *)
\* the model runs one workflow at a time: a run starts when none is under
\* way; compiling the graph on first use changes nothing the nodes read
run_search_workflow(user_query) ==
  /\ node \in {"idle", "END"}
  /\ runs < MaxRuns
  /\ ~blocked
  /\ state' = InitialState(user_query, NoSearchParameters, NoSearchResults,
                           NoHotel, NoGuest)
  /\ node' = "date_extractor"
  /\ today' = 0
  /\ runs' = runs + 1
  /\ UNCHANGED <<server, client, blocked>>

run_booking_workflow(user_query, selected_hotel, guest_info) ==
  /\ node \in {"idle", "END"}
  /\ runs < MaxRuns
  /\ ~blocked
  /\ state' = InitialState(user_query, NoSearchParameters,
                           [NoSearchResults EXCEPT !.hotels = <<selected_hotel>>],
                           selected_hotel, guest_info)
  /\ node' = "date_extractor"
  /\ today' = 0
  /\ runs' = runs + 1
  /\ UNCHANGED <<server, client, blocked>>

(* ---- orchestrate_hotel_search ---- *)
\* what lines 825-832 make of the final state of a search run;
\* search_results.get(key, default) yields the default for an absent key
orchestrate_hotel_search(final_state) ==
  [type    |-> IF final_state.search_results.type = ""
               THEN "conversation" ELSE final_state.search_results.type,
   message |-> IF final_state.search_results.message = ""
               THEN "Search completed" ELSE final_state.search_results.message,
   hotels  |-> final_state.search_results.hotels]

(* ---- book_hotel_reservation ---- *)
\* what lines 853-867 make of the final state of a booking run
book_hotel_reservation(final_state) ==
  IF final_state.booking_result.success
  THEN [success |-> TRUE, message |-> "Successfully booked",
        booking_details |-> final_state.booking_result]
  ELSE [success |-> FALSE, message |-> final_state.error_message,
        booking_details |-> NoBookingResult]

(* ---- get_workflow ---- *)
\* the callers of the module-level functions: coroutines of one event loop
Callers == 1..MaxCallers

\* a caller has not been answered
NoAnswer == [success |-> FALSE, message |-> "", refund_amount |-> 0]

\* get_workflow up to its first suspension (lines 808-815, 62-78).  With
\* the instance set it returns it at once.  Else it constructs the instance
\* (the API key is set), assigns it to the global and enters setup_tools,
\* which creates the client and suspends in get_tools(); a client that
\* cannot be created raises out of get_workflow.
get_workflow(c, setup) ==
  /\ pc[c] = "start"
  /\ IF workflow_instance
     THEN /\ pc' = [pc EXCEPT ![c] = "returned"]
          /\ UNCHANGED <<workflow_instance, client>>
     ELSE /\ workflow_instance' = TRUE
          /\ mcp_client' = (setup # "client_raises")
          /\ tools' = {}
          /\ pc' = [pc EXCEPT ![c] = IF setup = "client_raises"
                                     THEN "raised" ELSE "get_tools"]
  /\ UNCHANGED <<server, state, node, blocked, today, runs, answer>>

\* get_tools() completes (lines 78-81, 814): the tools are assigned and
\* get_workflow returns the instance, or the exception leaves get_workflow
get_tools_completes(c, setup) ==
  /\ pc[c] = "get_tools"
  /\ tools' = IF setup = "ok" THEN AllTools ELSE tools
  /\ pc' = [pc EXCEPT ![c] = IF setup = "ok" THEN "returned" ELSE "raised"]
  /\ UNCHANGED <<server, state, node, blocked, today, runs, answer,
                 workflow_instance, mcp_client>>

(* ---- cancel_hotel_booking ---- *)
\* the keys of the JSON object cancel_booking returns (lines 722, 725, 736-742)
CancelDataKeys(cancel_data) ==
  IF cancel_data.error # "" THEN {"error"}
  ELSE {"booking_id", "previous_status", "new_status", "message", "refund_amount"}

\* the dict of lines 942-946: cancel_data.get(key, default)
CancelAnswer(cancel_data) ==
  [success |-> IF "success" \in CancelDataKeys(cancel_data)
               THEN cancel_data.success ELSE FALSE,
   message |-> IF "message" \in CancelDataKeys(cancel_data)
               THEN "Booking has been successfully cancelled"
               ELSE "Booking cancelled",
   refund_amount |-> IF "refund_amount" \in CancelDataKeys(cancel_data)
                     THEN cancel_data.refund_amount ELSE 0]

Failure(message) == [NoAnswer EXCEPT !.message = message]

\* cancel_hotel_booking from the return of get_workflow on: nothing is
\* awaited between the test of the tools and the call, and nothing shared
\* is read after it; a call that never completes is a caller that stays
\* where it is
cancel_hotel_booking(c, booking_id, outcome) ==
  /\ pc[c] \in {"returned", "raised"}
  /\ pc' = [pc EXCEPT ![c] = "done"]
  /\ IF pc[c] = "raised" \/ (mcp_client /\ "cancel_booking" \in tools /\ outcome = "raises")
     THEN /\ answer' = [answer EXCEPT ![c] = Failure("Error cancelling booking")]
          /\ UNCHANGED server
     ELSE IF ~(mcp_client /\ tools # {})
     THEN /\ answer' = [answer EXCEPT ![c] = Failure("MCP client not available")]
          /\ UNCHANGED server
     ELSE IF "cancel_booking" \notin tools
     THEN /\ answer' = [answer EXCEPT ![c] = Failure("cancel_booking tool not found")]
          /\ UNCHANGED server
     ELSE /\ cancel_booking(booking_id)
          /\ answer' = [answer EXCEPT ![c] = CancelAnswer(result')]
  /\ UNCHANGED <<state, node, blocked, today, runs, workflow_instance, client>>

(* ---- orchestrate_hotel_search, as a caller makes it ---- *)
\* workflow = await get_workflow() has returned and the run starts; an
\* exception of get_workflow leaves orchestrate_hotel_search
orchestrate_hotel_search_starts(c, user_query) ==
  /\ pc[c] \in {"returned", "raised"}
  /\ \A d \in Callers : pc[d] # "running"
  /\ IF pc[c] = "raised"
     THEN /\ pc' = [pc EXCEPT ![c] = "done"]
          /\ UNCHANGED <<server, state, node, blocked, today, runs, client>>
     ELSE /\ run_search_workflow(user_query)
          /\ pc' = [pc EXCEPT ![c] = "running"]
  /\ UNCHANGED <<workflow_instance, answer>>

\* the run has ended and its final state is formatted for the caller
orchestrate_hotel_search_returns(c) ==
  /\ pc[c] = "running"
  /\ node = "END"
  /\ pc' = [pc EXCEPT ![c] = "done"]
  /\ answer' = [answer EXCEPT ![c] =
                  [NoAnswer EXCEPT !.message = orchestrate_hotel_search(state).message]]
  /\ UNCHANGED <<server, state, node, blocked, today, runs, workflow_instance, client>>

(* ---- the calls the model makes ---- *)
\* a valid stay, check-out before check-in, a date that does not exist
FewDatePairs == {<<D_12_05, D_12_09>>, <<D_12_09, D_12_05>>, <<D_11_31, D_12_09>>}

\* an unknown hotel, a room of another hotel, an unknown room
OtherTargets ==
  {<<"hotel_x", "room_1_1">>, <<"hotel_1", "room_2_1">>, <<"hotel_1", "room_x">>}

\* <<hotel_id, room_id, check_in, check_out>>
BookInputs ==
  {<<"hotel_1", "room_1_1", ci, co>> : ci \in ValidDateStrings, co \in ValidDateStrings}
  \cup {<<"hotel_1", "room_1_1", D_11_31, D_12_09>>,
        <<"hotel_1", "room_1_1", D_12_05, D_11_31>>}
  \cup {<<t[1], t[2], p[1], p[2]>> : t \in OtherTargets, p \in FewDatePairs}
  \cup {<<"hotel_7", "room_7_1", D_02_10, D_02_12>>}

\* <<hotel_id, check_in, check_out, guests>>
AvailInputs ==
  {<<"hotel_1", ci, co, 2>> : ci \in ValidDateStrings, co \in ValidDateStrings}
  \cup {<<"hotel_1", D_12_05, D_12_09, 3>>, <<"hotel_1", D_12_05, D_12_09, 5>>,
        <<"hotel_x", D_12_05, D_12_09, 2>>, <<"hotel_7", D_02_10, D_02_12, 2>>}

CancelInputs == {"booking_001", "booking_004", Uuid(1), "booking_x"}

HotelIdInputs == {"hotel_1", "hotel_x"}

\* the searches that are interleaved with the calls that change the stores
FewSearchInputs == {<<"San Francisco", 0, 170, "">>, <<"", 42, 1000, "spa,beach">>}

Init ==
  /\ HOTELS = HotelData
  /\ ROOMS = RoomData
  /\ BOOKINGS = BookingData
  /\ req = NoReq
  /\ result = NoResult
  /\ state = InitialState(<<>>, NoSearchParameters, NoSearchResults, NoHotel, NoGuest)
  /\ node = "idle"
  /\ blocked = FALSE
  /\ today = 0
  /\ mcp_client = FALSE
  /\ tools = {}
  /\ runs = 0
  /\ workflow_instance = FALSE
  /\ pc = [c \in Callers |-> "start"]
  /\ answer = [c \in Callers |-> NoAnswer]

\* every tool is a synchronous function without a suspension point: the
\* server runs a call to its return before it starts the next one, so a
\* step is one whole call and concurrent calls are steps in some order
Next ==
  \/ \E a \in BookInputs :
        /\ book_hotel(a[1], a[2], "Ann Lee", "ann@example.com", a[3], a[4])
        /\ UNCHANGED workflow
  \/ \E id \in CancelInputs : cancel_booking(id) /\ UNCHANGED workflow
  \/ \E a \in AvailInputs :
        check_availability(a[1], a[2], a[3], a[4]) /\ UNCHANGED workflow
  \/ \E a \in FewSearchInputs :
        search_hotels(a[1], a[2], a[3], a[4]) /\ UNCHANGED workflow
  \/ \E id \in HotelIdInputs : get_hotel_details(id) /\ UNCHANGED workflow
  \/ \E id \in CancelInputs : get_booking_details(id) /\ UNCHANGED workflow
  \/ list_all_bookings /\ UNCHANGED workflow
  \/ get_booking_statistics /\ UNCHANGED workflow

Spec == Init /\ [][Next]_vars

\* search_hotels reads HOTELS alone, which no tool changes: its result is a
\* function of its arguments
NextSearch ==
  \E a \in SearchInputs : search_hotels(a[1], a[2], a[3], a[4]) /\ UNCHANGED workflow

SpecSearch == Init /\ [][NextSearch]_vars

(* ---- the runs the model makes ---- *)
Guests ==
  { [name |-> "Ann Lee", email |-> "ann@example.com"],
    [name |-> "Ann Lee", email |-> ""],
    [name |-> "", email |-> "ann@example.com"] }

\* a run is a sequence of steps, one per node: a node runs to its return,
\* its conditional edge is evaluated on the state it returns, and the next
\* node runs; a node whose awaited call never completes stays suspended
NextWorkflow ==
  \/ \E user_query \in Queries :
        run_search_workflow(user_query) /\ UNCHANGED callers
  \/ \E guest_info \in Guests :
        /\ run_booking_workflow(Query_BookPlaza, HotelDict(HotelData[1]), guest_info)
        /\ UNCHANGED callers
  \/ \E now \in Todays, response \in DateResponses :
        date_extractor_node(now, response) /\ UNCHANGED callers
  \/ \E setup \in SetupOutcomes, response \in IntentResponses :
        query_analyzer_node(setup, response) /\ UNCHANGED callers
  \/ \E outcome \in ToolOutcomes, returned \in SearchReturns :
        hotel_searcher_node(outcome, returned) /\ UNCHANGED callers
  \/ \E outcome \in ToolOutcomes : availability_checker_node(outcome) /\ UNCHANGED callers
  \/ \E outcome \in ToolOutcomes : booking_executor_node(outcome) /\ UNCHANGED callers
  \/ error_handler_node /\ UNCHANGED callers

SpecWorkflow == Init /\ [][NextWorkflow]_vars

\* the event loop resumes every node whose awaited calls have completed
SpecWorkflowFair == SpecWorkflow /\ WF_vars(NextWorkflow)

(* ---- the callers the model makes ---- *)
\* a booking that can be cancelled, and one the ledger does not hold
FewCancelInputs == {"booking_001", "booking_x"}

\* concurrent callers of cancel_hotel_booking and orchestrate_hotel_search:
\* a step is the code a coroutine runs between two suspensions
NextCallers ==
  \/ \E c \in Callers, setup \in SetupOutcomes : get_workflow(c, setup)
  \/ \E c \in Callers, setup \in {"ok", "get_tools_raises"} :
        get_tools_completes(c, setup)
  \/ \E c \in Callers, booking_id \in FewCancelInputs, outcome \in {"ok", "raises"} :
        cancel_hotel_booking(c, booking_id, outcome)
  \/ \E c \in Callers : orchestrate_hotel_search_starts(c, Query_Beach)
  \/ \E c \in Callers : orchestrate_hotel_search_returns(c)
  \/ \E now \in {ToOrdinal(2024, 11, 28)} :
        /\ date_extractor_node(now, DateResponse("json", D_12_05, D_12_09, "high"))
        /\ UNCHANGED callers
  \/ \E response \in {r \in IntentResponses : r.kind = "raises"} :
        query_analyzer_node("ok", response) /\ UNCHANGED callers
  \/ \E outcome \in {"ok", "raises"}, returned \in {r \in SearchReturns : Len(r.hotels) = 1} :
        hotel_searcher_node(outcome, returned) /\ UNCHANGED callers
  \/ availability_checker_node("ok") /\ UNCHANGED callers
  \/ error_handler_node /\ UNCHANGED callers

SpecCallers == Init /\ [][NextCallers]_vars

(* ---- calendar time, for the properties ---- *)
Ord(s) == ParseDate(s).ord

\* the request is a stay of at least one night between two dates
ValidRange(check_in, check_out) ==
  /\ ParseDate(check_in).ok
  /\ ParseDate(check_out).ok
  /\ Ord(check_in) < Ord(check_out)

\* [check_in, check_out) and the stay of b share a night
CalendarOverlap(check_in, check_out, b) ==
  Ord(check_in) < Ord(b.check_out) /\ Ord(b.check_in) < Ord(check_out)

Active(b) == b.status \in ActiveStatuses

Ledger == {BOOKINGS[i] : i \in 1..Len(BOOKINGS)}

\* the step is a call of book_hotel that got past the checks on the hotel,
\* the room and the dates
CommitWithValidRequest ==
  /\ req'.op = "book_hotel"
  /\ FindHotel(req'.hotel_id) # 0
  /\ FindRoomOfHotel(req'.room_id, req'.hotel_id) # 0
  /\ ROOMS[FindRoomOfHotel(req'.room_id, req'.hotel_id)].available
  /\ ValidRange(req'.check_in, req'.check_out)

(* ---- C1 ---- *)
\* C1: no two pending or confirmed bookings of the same room have stays
\* that overlap as half-open ranges of calendar days.
C1_NoDoubleBooking ==
  \A i, j \in 1..Len(BOOKINGS) :
     (/\ i < j
      /\ BOOKINGS[i].room_id = BOOKINGS[j].room_id
      /\ Active(BOOKINGS[i])
      /\ Active(BOOKINGS[j]))
     => ~CalendarOverlap(BOOKINGS[i].check_in, BOOKINGS[i].check_out, BOOKINGS[j])

(* ---- C2 ---- *)
\* C2: of two commits for the same room and the same valid range, made when
\* no active booking overlaps the range, exactly one books: once the first
\* has returned its confirmation, the other returns the Conflict error and
\* the ledger does not grow again.
C2_OneOfTwoCommitsWins ==
  [][(/\ req.op = "book_hotel"
      /\ result.booking_confirmation # <<>>
      /\ req' = req
      /\ \A b \in Ledger :
            (/\ b.id # result.booking_confirmation[1].id
             /\ b.room_id = req.room_id
             /\ Active(b))
            => ~CalendarOverlap(req.check_in, req.check_out, b))
     => (result'.error = ErrConflict /\ BOOKINGS' = BOOKINGS)]_vars

(* ---- C3 ---- *)
\* C3: for a request with valid dates, commit returns the Conflict error
\* exactly when a pending or confirmed booking of the room overlaps the
\* requested range in calendar time, however the dates are written.
C3_ConflictIffCalendarOverlap ==
  [][CommitWithValidRequest
     => (result'.error = ErrConflict
         <=> \E b \in Ledger :
                /\ b.room_id = req'.room_id
                /\ Active(b)
                /\ CalendarOverlap(req'.check_in, req'.check_out, b))]_vars

(* ---- C4 ---- *)
\* the stay of b ends on the day the request starts, or starts on the day
\* the request ends
Adjacent(check_in, check_out, b) ==
  Ord(check_in) = Ord(b.check_out) \/ Ord(check_out) = Ord(b.check_in)

\* C4: an active booking whose stay only touches the requested range at an
\* end point is not reported as a conflict by commit, and a room whose
\* active bookings all only touch the range is still listed by
\* check_availability.
C4_TouchingRangesDoNotConflict ==
  [][/\ CommitWithValidRequest
        => \A b \in Ledger :
              (/\ b.room_id = req'.room_id
               /\ Active(b)
               /\ Adjacent(req'.check_in, req'.check_out, b))
              => \A k \in 1..Len(result'.conflicting_dates) :
                    result'.conflicting_dates[k] # DateRangeText(b)
     /\ (/\ req'.op = "check_availability"
         /\ FindHotel(req'.hotel_id) # 0
         /\ ValidRange(req'.check_in, req'.check_out))
        => \A i \in 1..Len(ROOMS) :
              (/\ ROOMS[i].hotel_id = req'.hotel_id
               /\ ROOMS[i].available
               /\ ROOMS[i].capacity >= req'.guests
               /\ \A b \in Ledger :
                     (b.room_id = ROOMS[i].id /\ Active(b))
                     => Adjacent(req'.check_in, req'.check_out, b))
              => \E k \in 1..Len(result'.available_rooms) :
                    result'.available_rooms[k] = ROOMS[i]]_vars

(* ---- C5 ---- *)
\* C5: only pending and confirmed bookings block a room: commit reports
\* none but active bookings as conflicts, a commit for the room and range
\* of a cancelled booking books when no active booking overlaps the range,
\* and a pending booking that overlaps the range gives the Conflict error.
C5_ActiveBookingsBlock ==
  [][CommitWithValidRequest
     => /\ \A k \in 1..Len(result'.conflicting_dates) :
              \E b \in Ledger :
                 /\ Active(b)
                 /\ b.room_id = req'.room_id
                 /\ result'.conflicting_dates[k] = DateRangeText(b)
        /\ (/\ \E c \in Ledger :
                  /\ c.status = "cancelled"
                  /\ c.hotel_id = req'.hotel_id
                  /\ c.room_id = req'.room_id
                  /\ c.check_in = req'.check_in
                  /\ c.check_out = req'.check_out
            /\ \A b \in Ledger :
                  (b.room_id = req'.room_id /\ Active(b))
                  => ~CalendarOverlap(req'.check_in, req'.check_out, b))
           => result'.booking_confirmation # <<>>
        /\ (\E b \in Ledger :
               /\ b.status = "pending"
               /\ b.room_id = req'.room_id
               /\ CalendarOverlap(req'.check_in, req'.check_out, b))
           => result'.error = ErrConflict]_vars

(* ---- C6 ---- *)
\* C6: a commit that returns an error leaves the hotels, the rooms and the
\* ledger as they were, and the ledger grows only in a step in which commit
\* returns a booking confirmation.
C6_FailedCommitChangesNothing ==
  [][/\ (req'.op = "book_hotel" /\ result'.error # "")
        => UNCHANGED <<HOTELS, ROOMS, BOOKINGS>>
     /\ Len(BOOKINGS') > Len(BOOKINGS)
        => /\ req'.op = "book_hotel"
           /\ result'.error = ""
           /\ result'.booking_confirmation # <<>>]_vars

\* a commit has just returned the Conflict error
C6_Witness ==
  /\ req.op = "book_hotel"
  /\ result.error = ErrConflict
  /\ result.conflicting_dates # <<>>

(* ---- C7 ---- *)
\* C7: commit returns the error of the first failing check, in the order
\* unknown hotel, room unknown or of another hotel, room flagged
\* unavailable, check-out not after check-in, overlapping active booking.
C7_FirstFailingCheckWins ==
  [][req'.op = "book_hotel"
     => LET hotel == FindHotel(req'.hotel_id)
            room  == FindRoomOfHotel(req'.room_id, req'.hotel_id)
            datesOk == ParseDate(req'.check_in).ok /\ ParseDate(req'.check_out).ok
        IN  /\ hotel = 0 => result'.error = ErrHotelNotFound
            /\ (hotel # 0 /\ room = 0) => result'.error = ErrRoomNotFound
            /\ (hotel # 0 /\ room # 0 /\ ~ROOMS[room].available)
               => result'.error = ErrUnavailable
            /\ (/\ hotel # 0 /\ room # 0 /\ ROOMS[room].available
                /\ datesOk
                /\ Ord(req'.check_out) <= Ord(req'.check_in))
               => result'.error = ErrInvalidRange
            /\ result'.error = ErrConflict
               => /\ hotel # 0 /\ room # 0 /\ ROOMS[room].available
                  /\ datesOk
                  /\ Ord(req'.check_out) > Ord(req'.check_in)]_vars

\* a commit for a room that is not of the hotel, with check-out before
\* check-in, has returned the error of the room
C7_Witness ==
  /\ req.op = "book_hotel"
  /\ FindHotel(req.hotel_id) # 0
  /\ FindRoomOfHotel(req.room_id, req.hotel_id) = 0
  /\ ParseDate(req.check_in).ok /\ ParseDate(req.check_out).ok
  /\ Ord(req.check_out) <= Ord(req.check_in)
  /\ result.error = ErrRoomNotFound

(* ---- C8 ---- *)
\* C8: a commit that books appends one booking to the end of the ledger:
\* confirmed, with the hotel, room, guest and dates of the request, an id
\* that no earlier booking has, and a total price of the room's nightly
\* price times the days from check-in to check-out; the earlier bookings
\* are unchanged.
C8_CommitAppendsOneBooking ==
  [][(req'.op = "book_hotel" /\ result'.error = "")
     => LET n == Len(BOOKINGS)
            b == BOOKINGS'[n + 1]
            room == ROOMS[FindRoom(req'.room_id)]
        IN  /\ Len(BOOKINGS') = n + 1
            /\ SubSeq(BOOKINGS', 1, n) = BOOKINGS
            /\ result'.booking_confirmation = <<b>>
            /\ b.status = "confirmed"
            /\ b.hotel_id = req'.hotel_id
            /\ b.room_id = req'.room_id
            /\ b.guest_name = req'.guest_name
            /\ b.guest_email = req'.guest_email
            /\ b.check_in = req'.check_in
            /\ b.check_out = req'.check_out
            /\ \A i \in 1..n : BOOKINGS[i].id # b.id
            /\ b.total_price =
                 room.price_per_night * (Ord(req'.check_out) - Ord(req'.check_in))
            /\ result'.nights = Ord(req'.check_out) - Ord(req'.check_in)]_vars

\* a commit has just booked a stay of more than one night
C8_Witness ==
  /\ req.op = "book_hotel"
  /\ result.booking_confirmation # <<>>
  /\ result.nights > 1
  /\ BOOKINGS[Len(BOOKINGS)] = result.booking_confirmation[1]

(* ---- C9 ---- *)
\* C9: every booking of the ledger has its check-out after its check-in and
\* a total price of its room's nightly price times the nights of the stay.
C9_BookingsWellFormed ==
  \A i \in 1..Len(BOOKINGS) :
     LET b == BOOKINGS[i]
     IN  /\ ValidRange(b.check_in, b.check_out)
         /\ FindRoom(b.room_id) # 0
         /\ b.total_price =
              ROOMS[FindRoom(b.room_id)].price_per_night
              * (Ord(b.check_out) - Ord(b.check_in))

\* the ledger holds a committed booking whose dates are not zero-padded
C9_Witness ==
  \E i \in 1..Len(BOOKINGS) :
     /\ i > Len(BookingData)
     /\ BOOKINGS[i].check_in = D_12_9

(* ---- C10 ---- *)
\* C10: the ledger never loses a booking or changes the order, a cancelled
\* booking stays cancelled, and the only change ever made to a booking is
\* cancel_booking setting an active status to cancelled.
C10_BookingLifecycle ==
  [][/\ Len(BOOKINGS') >= Len(BOOKINGS)
     /\ \A i \in 1..Len(BOOKINGS) :
           /\ BOOKINGS'[i] = [BOOKINGS[i] EXCEPT !.status = BOOKINGS'[i].status]
           /\ BOOKINGS[i].status = "cancelled" => BOOKINGS'[i].status = "cancelled"
           /\ BOOKINGS'[i].status # BOOKINGS[i].status
              => /\ Active(BOOKINGS[i])
                 /\ BOOKINGS'[i].status = "cancelled"
                 /\ req'.op = "cancel_booking"
                 /\ req'.booking_id = BOOKINGS[i].id]_vars

\* a booking was cancelled, and a commit made afterwards has booked
C10_Witness ==
  /\ req.op = "book_hotel"
  /\ result.booking_confirmation # <<>>
  /\ \E i \in 1..(Len(BOOKINGS) - 1) : BOOKINGS[i].status = "cancelled"

\* A cancel step that is not a successful cancel: the id is unknown or the
\* booking is already cancelled.
CancelRejected ==
  /\ req'.op = "cancel_booking"
  /\ LET i == FindBooking(req'.booking_id)
     IN  i = 0 \/ BOOKINGS[i].status = "cancelled"

\* C11: cancel on an unknown booking id returns "Booking not found", cancel
\* on a booking that is already cancelled returns "Booking is already
\* cancelled"; both carry no refund amount and leave the hotels, the rooms
\* (every available flag) and the ledger unchanged, so a second cancel of the
\* same booking refunds nothing.
C11_RejectedCancelChangesNothing ==
  [][ CancelRejected =>
        LET i == FindBooking(req'.booking_id)
        IN  /\ result'.error = (IF i = 0 THEN ErrBookingNotFound
                                         ELSE ErrAlreadyCancelled)
            /\ result'.refund_amount = 0
            /\ result'.previous_status = ""
            /\ UNCHANGED <<HOTELS, ROOMS, BOOKINGS>> ]_vars

\* A second cancel of seed booking_001 has been rejected.
C11_Witness ==
  /\ req.op = "cancel_booking"
  /\ req.booking_id = "booking_001"
  /\ result.error = ErrAlreadyCancelled
  /\ result.refund_amount = 0

\* C12: a successful cancel of an active booking b sets b's status to
\* cancelled and nothing else in the ledger, sets the available flag of b's
\* room to true and changes no other room, and reports b's earlier status as
\* previous_status and b's total_price as refund_amount.
C12_CancelFrame ==
  [][ (req'.op = "cancel_booking" /\ ~CancelRejected) =>
        LET i == FindBooking(req'.booking_id)
            b == BOOKINGS[i]
        IN  /\ Len(BOOKINGS') = Len(BOOKINGS)
            /\ \A k \in 1..Len(BOOKINGS) :
                  BOOKINGS'[k] = IF k = i THEN [b EXCEPT !.status = "cancelled"]
                                         ELSE BOOKINGS[k]
            /\ Len(ROOMS') = Len(ROOMS)
            /\ \A k \in 1..Len(ROOMS) :
                  /\ ROOMS[k].id = b.room_id => ROOMS'[k].available
                  /\ ROOMS'[k] = [ROOMS[k] EXCEPT !.available = ROOMS'[k].available]
                  /\ ROOMS[k].id # b.room_id => ROOMS'[k] = ROOMS[k]
            /\ HOTELS' = HOTELS
            /\ result'.error = ""
            /\ result'.previous_status = b.status
            /\ result'.new_status = "cancelled"
            /\ result'.refund_amount = b.total_price ]_vars

\* The pending seed booking_004 has been cancelled and its price refunded.
C12_Witness ==
  /\ req.op = "cancel_booking"
  /\ req.booking_id = "booking_004"
  /\ result.previous_status = "pending"
  /\ result.refund_amount > 0
  /\ \E i \in 1..Len(BOOKINGS) :
        BOOKINGS[i].id = "booking_004" /\ BOOKINGS[i].status = "cancelled"

(* ---- the workflow, for the properties ---- *)
\* a node has just run: every step of a run but its start
StageStep == node \notin {"idle", "END"} /\ ~blocked

GuestPresent(s) == s.guest_info.name # "" /\ s.guest_info.email # ""

(* ---- C13 ---- *)
\* C13: the booking stage is entered, and a booking outcome (a result or a
\* booking failure) exists, only in a run that has a selected hotel, a guest
\* name and a guest email; a run without a guest name or without a guest
\* email never executes the booking stage.
C13_BookingNeedsGuest ==
  (\/ node = "booking_executor"
   \/ state.booking_result # NoBookingResult
   \/ state.error_message = "Booking failed")
  => (state.selected_hotel # NoHotel /\ GuestPresent(state))

\* A run without a guest email has ended right after a completed
\* availability check.
C13_Witness ==
  /\ node = "END"
  /\ state.guest_info.name # ""
  /\ state.guest_info.email = ""
  /\ state.current_step = "availability_check_complete"
  /\ state.selected_hotel.availability_result # <<>>

(* ---- C14 ---- *)
\* C14: a run in which a stage (intent analysis, search, availability
\* check, booking execution) raised, so that an error message was captured,
\* has ended only after the error handler ran: at its end the step is
\* error_handled and workflow_complete is true.
C14_FailedStageIsHandled ==
  (node = "END" /\ state.error_message # "")
  => (state.current_step = "error_handled" /\ state.workflow_complete)

(* ---- C15 ---- *)
\* C15: after intent analysis the run goes to the error handler if the
\* analysis failed, else to the search if a hotel intent was detected, else
\* it ends; a run that ends there has made no server call in that step and
\* has no search result and no booking result.
C15_RoutingAfterAnalysis ==
  [][ (node = "query_analyzer" /\ node' # "query_analyzer") =>
        /\ node' = IF state'.current_step = "error" THEN "error_handler"
                   ELSE IF state'.search_parameters.has_hotel_intent
                        THEN "hotel_searcher"
                   ELSE "END"
        /\ node' = "END" =>
             /\ UNCHANGED server
             /\ state'.search_results.type = ""
             /\ state'.booking_result = NoBookingResult
             /\ state'.error_message = "" ]_vars

\* A run has ended after intent analysis found no hotel intent.
C15_Witness ==
  /\ node = "END"
  /\ state.current_step = "query_analysis_complete"
  /\ ~state.search_parameters.has_hotel_intent

(* ---- C16 ---- *)
\* C16: after the search the run goes to the availability check exactly
\* when the search did not fail and produced at least one hotel, it ends
\* when the search did not fail and produced none, and it goes to the error
\* handler when the search failed.
C16_RoutingAfterSearch ==
  [][ (node = "hotel_searcher" /\ node' # "hotel_searcher") =>
        LET failed == state'.current_step = "error"
            hotels == state'.search_results.hotels
        IN  /\ node' = "availability_checker" <=> (~failed /\ hotels # <<>>)
            /\ (~failed /\ hotels = <<>>) => node' = "END"
            /\ failed => node' = "error_handler" ]_vars

\* The search returned two hotels and the availability check is next.
C16_Witness ==
  /\ node = "availability_checker"
  /\ state.current_step = "hotel_search_complete"
  /\ Len(state.search_results.hotels) = 2

(* ---- C17 ---- *)
\* a date of extracted_dates holds a value
Populated(d) == d # <<>> /\ d # JsonNull

\* C17: whatever the date extractor answers, the date-extraction stage
\* hands over to intent analysis with a check-in and a check-out that hold
\* a value and with no error message.
C17_DatesAlwaysPopulated ==
  [][ (node = "date_extractor" /\ node' # "date_extractor") =>
        /\ node' = "query_analyzer"
        /\ state'.error_message = ""
        /\ Populated(state'.extracted_dates.check_in)
        /\ Populated(state'.extracted_dates.check_out) ]_vars

(* ---- C18 ---- *)
\* date extraction failed and the fallback supplied the dates
FellBack == state.extracted_dates.method \in {"regex_fallback", "default_fallback"}

C19_NoHang ==
  (blocked /\ node \in {"date_extractor", "query_analyzer"})
    ~> (state.current_step = "error_handled")

(* ---- C20 ---- *)
\* C20: every step of a stage appends at least one entry to the debug log
\* and leaves the log from before the step as a prefix of the log after it.
C20_DebugLogAppendOnly ==
  [][ StageStep =>
        /\ Len(state'.debug_info) > Len(state.debug_info)
        /\ SubSeq(state'.debug_info, 1, Len(state.debug_info)) = state.debug_info
     ]_vars

\* A run has ended in the error handler after a failed availability check,
\* with the entries of four stages and of the handler in its log.
C20_Witness ==
  /\ node = "END"
  /\ state.current_step = "error_handled"
  /\ state.error_message = "Availability check failed"
  /\ Len(state.debug_info) >= 9

(* ---- C21 ---- *)
\* a search run has ended: run_search_workflow passes no guest details
SearchRunEnded == node = "END" /\ state.guest_info = NoGuest

\* the messages of the runs that end with nothing matched: no hotel
\* intent, or a search that found no hotel
NothingMatchedMessages ==
  { orchestrate_hotel_search([state EXCEPT !.search_results = r]).message :
      r \in {NoSearchResults, SearchResults(<<>>, "No hotels found"),
              SearchResults(<<>>, FoundMessage(<<>>))} }

C22_AvailabilityForFirstHotel ==
  [][node = "availability_checker" =>
       LET hotels == state.search_results.hotels
       IN  /\ hotels # <<>>
           /\ "check_availability" \in tools
           /\ \/ /\ state'.current_step = "availability_check_complete"
                 /\ req' = [NoReq EXCEPT !.op = "check_availability",
                                         !.hotel_id = hotels[1].id,
                                         !.check_in = state.extracted_dates.check_in,
                                         !.check_out = state.extracted_dates.check_out,
                                         !.guests = 2]
                 /\ state'.selected_hotel =
                      [hotels[1] EXCEPT !.availability_result = <<result'>>]
                 /\ UNCHANGED <<HOTELS, ROOMS, BOOKINGS>>
              \/ /\ state'.current_step # "availability_check_complete"
                 /\ state'.selected_hotel = state.selected_hotel
                 /\ UNCHANGED server]_vars

\* the stage has checked hotel_6, the first of the two hotels found
C22_Witness ==
  /\ state.current_step = "availability_check_complete"
  /\ Len(state.search_results.hotels) = 2
  /\ req.op = "check_availability"
  /\ req.hotel_id = "hotel_6"
  /\ state.selected_hotel.id = "hotel_6"

(* ---- C23 ---- *)
\* the sum of total_price over the bookings at the indices in S
RECURSIVE PriceSum(_, _)
PriceSum(bookings, S) ==
  IF S = {} THEN 0
  ELSE LET i == CHOOSE j \in S : TRUE
       IN  bookings[i].total_price + PriceSum(bookings, S \ {i})

ConfirmedTotal(bookings) ==
  PriceSum(bookings, {i \in 1..Len(bookings) : bookings[i].status = "confirmed"})

\* C23: the total_revenue that get_booking_statistics reports is the sum
\* of total_price over the confirmed bookings of the ledger, and a
\* cancellation of a confirmed booking lowers that sum by the total_price
\* of the booking
C23_RevenueOfConfirmedBookings ==
  [][/\ req'.op = "get_booking_statistics" =>
          result'.statistics[1].total_revenue = ConfirmedTotal(BOOKINGS')
     /\ (req'.op = "cancel_booking" /\ result'.previous_status = "confirmed") =>
          ConfirmedTotal(BOOKINGS') =
            ConfirmedTotal(BOOKINGS) - BOOKINGS[FindBooking(req'.booking_id)].total_price
    ]_vars

\* statistics after booking_001 (750, confirmed) has been cancelled, with
\* booking_004 (340) pending: the revenue is 360 + 570 + 255
C23_Witness ==
  /\ req.op = "get_booking_statistics"
  /\ BOOKINGS[1].status = "cancelled"
  /\ BOOKINGS[4].status = "pending"
  /\ result.statistics[1].total_revenue = 360 + 570 + 255

(* ---- C24 ---- *)
\* the number of active bookings of a hotel
ActiveCount(hotel_id) ==
  Cardinality({i \in 1..Len(BOOKINGS) :
                 BOOKINGS[i].hotel_id = hotel_id /\ Active(BOOKINGS[i])})

\* hotel a comes before hotel b: more active bookings, or as many and the
\* smaller id (the ids of the inventory ascend with the position)
RankedBefore(a, b) ==
  \/ ActiveCount(a) > ActiveCount(b)
  \/ ActiveCount(a) = ActiveCount(b) /\ FindHotel(a) < FindHotel(b)

\* C24: most_popular_hotels lists the hotels that have an active booking,
\* at most 5 of them, by the number of active bookings, the larger first,
\* hotels with as many bookings by hotel id; every hotel left out comes
\* after every hotel listed
C24_PopularHotelsByCountThenId ==
  req.op = "get_booking_statistics" =>
    LET popular == result.statistics[1].most_popular_hotels
        IdAt(k) == HOTELS[First(HOTELS, LAMBDA h : h.name = popular[k].hotel_name)].id
        counted == {HOTELS[i].id : i \in {j \in 1..Len(HOTELS) : ActiveCount(HOTELS[j].id) > 0}}
        listed  == {IdAt(k) : k \in 1..Len(popular)}
    IN  /\ Len(popular) = (IF Cardinality(counted) < 5 THEN Cardinality(counted) ELSE 5)
        /\ listed \subseteq counted
        /\ \A k \in 1..Len(popular) : popular[k].booking_count = ActiveCount(IdAt(k))
        /\ \A k \in 1..(Len(popular) - 1) : RankedBefore(IdAt(k), IdAt(k + 1))
        /\ \A a \in listed : \A b \in counted \ listed : RankedBefore(a, b)

(* ---- search, for the properties ---- *)
Searched == req.op = "search_hotels"

\* the ids of the hotels of a list
IdsOf(hotels) == {hotels[k].id : k \in 1..Len(hotels)}

\* s ignoring case is a substring of t ignoring case
InIgnoringCase(s, t) == Contains(Lower(t), Lower(s))

(* ---- C25 ---- *)
\* the amenity terms a search asks for: the parts between the commas,
\* trimmed, that are not blank
RequestedTerms(amenities) ==
  {Strip(SplitComma(Chars(amenities))[k]) : k \in 1..Len(SplitComma(Chars(amenities)))}
    \ {<<>>}

\* some requested term is part of some amenity tag of the hotel
HasRequestedAmenity(hotel, terms) ==
  \E term \in terms : \E j \in 1..Len(hotel.amenities) :
     InIgnoringCase(term, Chars(hotel.amenities[j]))

\* C25: the result of a search is the result of the same search without
\* amenities, restricted, when a term is requested, to the hotels that have
\* an amenity tag containing at least one requested term, case ignored
C25_AmenityFilterMatchesAny ==
  Searched =>
    LET terms == RequestedTerms(req.amenities)
    IN  result.hotels =
          SelectSeq(SearchedHotels(req.location, req.min_rating10, req.max_price, ""),
                    LAMBDA hotel : terms = {} \/ HasRequestedAmenity(hotel, terms))

\* "spa,beach" finds hotel_2, which has Beach Access and no spa, and does
\* not find hotel_3, which has neither
C25_Witness ==
  /\ Searched
  /\ req.amenities = "spa,beach"
  /\ req.location = ""
  /\ "hotel_2" \in IdsOf(result.hotels)
  /\ "hotel_3" \notin IdsOf(result.hotels)
  /\ \A j \in 1..Len(HOTELS[2].amenities) :
        ~InIgnoringCase(<<"s", "p", "a">>, Chars(HOTELS[2].amenities[j]))

(* ---- C26 ---- *)
\* the k-th smallest element of a set of numbers
KthOf(S, k) == CHOOSE i \in S : Cardinality({j \in S : j < i}) = k - 1

\* C26: the result lists, in the order of the inventory and each once,
\* the hotels that pass the location and the amenity filter and have
\* rating >= min_rating and price_per_night <= max_price; count is their
\* number and no error is reported, also when there is none
C26_SearchIsFilteredInventory ==
  Searched =>
    LET passing == {i \in 1..Len(HOTELS) :
                      /\ LocationPasses(HOTELS[i], req.location)
                      /\ AmenityPasses(HOTELS[i], req.amenities)
                      /\ HOTELS[i].rating10 >= req.min_rating10
                      /\ HOTELS[i].price_per_night <= req.max_price}
    IN  /\ Len(result.hotels) = Cardinality(passing)
        /\ \A k \in 1..Len(result.hotels) : result.hotels[k] = HOTELS[KthOf(passing, k)]
        /\ result.count = Cardinality(passing)
        /\ result.error = ""

\* hotel_7 has exactly the rating 4.2 and the price 170 that are asked for
C26_Witness ==
  /\ Searched
  /\ req.min_rating10 = 42
  /\ req.max_price = 170
  /\ HOTELS[7].rating10 = 42
  /\ HOTELS[7].price_per_night = 170
  /\ "hotel_7" \in IdsOf(result.hotels)

(* ---- C27 ---- *)
\* the part of a location before its first comma
PrimaryLocality(location) == Strip(SplitComma(location)[1])

\* C27: the result of a search is the result of the same search without a
\* location, restricted, when the location is not blank, to the hotels
\* whose location contains the query or whose primary locality is
\* contained in the query, case ignored
C27_LocationEitherDirection ==
  Searched =>
    LET query == Strip(Chars(req.location))
    IN  result.hotels =
          SelectSeq(SearchedHotels("", req.min_rating10, req.max_price, req.amenities),
                    LAMBDA hotel :
                      \/ query = <<>>
                      \/ InIgnoringCase(query, Chars(hotel.location))
                      \/ InIgnoringCase(PrimaryLocality(Chars(hotel.location)), query))

(* ---- C28 ---- *)
\* C28: for a hotel of the inventory check_availability lists, in the
\* order of the inventory, the rooms of the hotel that are flagged
\* available, hold the guests and have no active booking whose stay shares
\* a night with the requested range; for an unknown hotel it reports
\* "Hotel not found" and lists nothing
C28_ResolveListsFreeRooms ==
  req.op = "check_availability" =>
    IF FindHotel(req.hotel_id) = 0
    THEN result.error = ErrHotelNotFound /\ result.available_rooms = <<>>
    ELSE /\ result.error = ""
         /\ result.available_rooms =
              SelectSeq(ROOMS,
                        LAMBDA room :
                          /\ room.hotel_id = req.hotel_id
                          /\ room.available
                          /\ room.capacity >= req.guests
                          /\ ~\E b \in Ledger :
                                /\ b.room_id = room.id
                                /\ Active(b)
                                /\ CalendarOverlap(req.check_in, req.check_out, b))

(* ---- C29 ---- *)
\* the ranges a request is compared with: every pair of the date strings
\* of the calls, those of no night and the inverted ones included
DateRanges == ValidDateStrings \X ValidDateStrings

Range(check_in, check_out) == [check_in |-> check_in, check_out |-> check_out]

\* C29: the range of a call of check_availability or book_hotel is judged
\* to overlap a range B exactly when B is judged to overlap it
C29_OverlapIsSymmetric ==
  req.op \in {"check_availability", "book_hotel"} =>
    \A r \in DateRanges \cup {<<b.check_in, b.check_out>> : b \in Ledger} :
       Overlaps(req.check_in, req.check_out, Range(r[1], r[2]))
         = Overlaps(r[1], r[2], Range(req.check_in, req.check_out))

\* the inverted request 23 to 9 December and the range 2024-12-05 to
\* 2024-12-9 are judged to overlap, either way round
C29_Witness ==
  /\ req.op = "check_availability"
  /\ req.check_in = D_12_23
  /\ req.check_out = D_12_09
  /\ Overlaps(req.check_in, req.check_out, Range(D_12_05, D_12_9))
  /\ Overlaps(D_12_05, D_12_9, Range(req.check_in, req.check_out))

(* ---- C30 ---- *)
ReadOps ==
  {"search_hotels", "get_hotel_details", "check_availability",
   "get_booking_details", "list_all_bookings", "get_booking_statistics"}

\* C30: a call of search_hotels, get_hotel_details, check_availability,
\* get_booking_details, list_all_bookings or get_booking_statistics leaves
\* the hotels, the rooms with their available flags and the ledger as they
\* were, whatever its arguments
C30_ReadsChangeNothing ==
  [][req'.op \in ReadOps => UNCHANGED <<HOTELS, ROOMS, BOOKINGS>>]_vars

\* the details of an unknown booking have been asked for on a ledger that
\* holds a new booking and a cancelled one
C30_Witness ==
  /\ req.op = "get_booking_details"
  /\ req.booking_id = "booking_x"
  /\ result.error = ErrBookingNotFound
  /\ Len(BOOKINGS) > Len(BookingData)
  /\ BOOKINGS[1].status = "cancelled"

(* ---- C31 ---- *)
\* the answer of the commit a run kept in its booking result
CommitAnswer == state.booking_result.result[1]

\* C31: a run that has ended with booking_result.success true, so that
\* book_hotel_reservation reports success, made a commit that returned a
\* booking confirmation and no error, and the confirmed booking is in the
\* ledger
C31_SuccessOnlyAfterConfirmedCommit ==
  (node = "END" /\ book_hotel_reservation(state).success) =>
    /\ state.booking_result.result # <<>>
    /\ CommitAnswer.error = ""
    /\ CommitAnswer.booking_confirmation # <<>>
    /\ \E i \in 1..Len(BOOKINGS) :
          /\ BOOKINGS[i] = CommitAnswer.booking_confirmation[1]
          /\ BOOKINGS[i].status = "confirmed"

(* ---- C32 ---- *)
\* what the caller of book_hotel_reservation passed in the booking runs of
\* the model: the hotel, and the dates its query was written from
CallersHotel == HotelDict(HotelData[1])

CallersDates == [check_in |-> D_12_05, check_out |-> D_12_09]

\* the run under way was started by book_hotel_reservation and has made
\* its commit
BookingRunCommitted ==
  /\ state.user_query = Query_BookPlaza
  /\ state.current_step = "booking_complete"
  /\ req.op = "book_hotel"

\* C32: the commit of a booking run is for the hotel the caller selected
\* and for the check-in and check-out dates the caller passed
C32_CommitForCallersHotelAndDates ==
  BookingRunCommitted =>
    /\ req.hotel_id = CallersHotel.id
    /\ req.check_in = CallersDates.check_in
    /\ req.check_out = CallersDates.check_out

(* ---- C33 ---- *)
\* a stage of a run started by run_search_workflow, which passes no guest
\* details, is about to run
SearchRunStage == node \notin {"idle", "END"} /\ state.guest_info = NoGuest

\* C33: no step of a search-only run changes the ledger or a room flag,
\* whatever tool call the intent classifier returned
C33_SearchRunChangesNoStore ==
  [][SearchRunStage => UNCHANGED <<BOOKINGS, ROOMS>>]_vars

(* ---- C34 ---- *)
\* the rooms the availability check of the run under way listed
RoomsListedForRun == ListedRooms(state.selected_hotel)

\* C34: a step of the booking stage that makes a commit commits a room the
\* availability check of the same run listed; when the check listed no
\* room, the step makes no commit
C34_CommitsOnlyListedRooms ==
  [][(node = "booking_executor" /\ req' # req) =>
        /\ req'.op = "book_hotel"
        /\ \E k \in 1..Len(RoomsListedForRun) : RoomsListedForRun[k].id = req'.room_id]_vars

(* ---- C35 ---- *)
\* the last call was a resolve for a hotel of the inventory and a stay of
\* at least one night; the stores are as the call left them
ResolvedValidRange ==
  /\ req.op = "check_availability"
  /\ FindHotel(req.hotel_id) # 0
  /\ ValidRange(req.check_in, req.check_out)

\* what a commit of the room for the hotel and range of the resolve would
\* return on the stores as they are
CommitErrorFor(room_id) ==
  BookError(req.hotel_id, room_id, req.check_in, req.check_out)

\* C35: on an unchanged ledger every room a resolve listed for an existing
\* hotel and a valid range is accepted by a commit of that room and range,
\* and no room of the hotel that a commit would refuse with Conflict is
\* listed
C35_ResolveAndCommitAgree ==
  ResolvedValidRange =>
    /\ \A k \in 1..Len(result.available_rooms) :
          CommitErrorFor(result.available_rooms[k].id) = ""
    /\ \A i \in 1..Len(ROOMS) :
          (ROOMS[i].hotel_id = req.hotel_id /\ CommitErrorFor(ROOMS[i].id) = ErrConflict)
            => \A k \in 1..Len(result.available_rooms) :
                  result.available_rooms[k].id # ROOMS[i].id

\* a resolve for a valid range has listed a room of the hotel and left out
\* another that a booking made since the start holds
C35_Witness ==
  /\ ResolvedValidRange
  /\ Len(BOOKINGS) > Len(BookingData)
  /\ result.available_rooms # <<>>
  /\ \E i \in 1..Len(ROOMS) :
        /\ ROOMS[i].hotel_id = req.hotel_id
        /\ CommitErrorFor(ROOMS[i].id) = ErrConflict

(* ---- C36 ---- *)
\* the first initialisation has begun and has not finished: a caller is
\* suspended in setup_tools, waiting for the tool list
SetupInProgress == \E c \in Callers : pc[c] = "get_tools"

\* the caller holds the instance get_workflow returned to it
HoldsInstance(c) == pc[c] \in {"returned", "running", "done"}

\* C36: while the first initialisation is in progress no caller has been
\* handed the shared instance and no stage of a run is running or has run
\* on it: callers that arrive in the meantime wait for the tool list
C36_InstanceOnlyAfterToolsLoaded ==
  SetupInProgress =>
    /\ \A c \in Callers : ~HoldsInstance(c)
    /\ node = "idle"

(* ---- C37 ---- *)
\* C37: every room of the inventory is flagged available in every reachable
\* state, and no commit is answered with the Unavailable error
C37_RoomsStayAvailable ==
  /\ \A i \in 1..Len(ROOMS) : ROOMS[i].available
  /\ result.error # ErrUnavailable

\* a cancel has rewritten the flag of the room of a booking made since the
\* start, after which the room is still flagged available
C37_Witness ==
  /\ req.op = "cancel_booking"
  /\ result.new_status = "cancelled"
  /\ FindBooking(req.booking_id) > Len(BookingData)
  /\ ROOMS[FindRoom(BOOKINGS[FindBooking(req.booking_id)].room_id)].available

(* ---- C38 ---- *)
Statuses == {"pending", "confirmed", "cancelled"}

\* C38: every booking of the ledger names a hotel of the inventory and a
\* room of the inventory that belongs to that hotel, and its status is
\* pending, confirmed or cancelled
C38_BookingsReferToInventory ==
  \A b \in Ledger :
    /\ \E i \in 1..Len(HOTELS) : HOTELS[i].id = b.hotel_id
    /\ \E i \in 1..Len(ROOMS) : ROOMS[i].id = b.room_id /\ ROOMS[i].hotel_id = b.hotel_id
    /\ b.status \in Statuses

\* the ledger holds a booking made since the start and a cancelled one,
\* and the last commit was refused for a room of another hotel
C38_Witness ==
  /\ Len(BOOKINGS) > Len(BookingData)
  /\ \E b \in Ledger : b.status = "cancelled"
  /\ req.op = "book_hotel"
  /\ req.hotel_id = "hotel_1"
  /\ req.room_id = "room_2_1"
  /\ result.error = ErrRoomNotFound

(* ---- C39 ---- *)
\* caller c has just been answered by cancel_hotel_booking
CancelAnswered(c) == pc[c] \in {"returned", "raised"} /\ pc'[c] = "done" /\ answer'[c] # answer[c]

\* the step changed the status of a booking to cancelled
CancelTookEffect ==
  \E i \in 1..Len(BOOKINGS) :
    BOOKINGS[i].status # "cancelled" /\ BOOKINGS'[i].status = "cancelled"

\* C39: cancel_hotel_booking answers success = true exactly when the
\* cancel changed the status of a booking to cancelled; when the ledger
\* refused the cancel it answers success = false with the error text of the
\* ledger (not found, already cancelled)
C39_CancelAnswerTellsTheOutcome ==
  [][\A c \in Callers :
       CancelAnswered(c) =>
         /\ answer'[c].success <=> CancelTookEffect
         /\ (req'.op = "cancel_booking" /\ req' # req /\ result'.error # "")
              => (~answer'[c].success /\ answer'[c].message = result'.error)]_vars

(* ---- C40 ---- *)
\* the place of a stage in the order of a run
StageRank ==
  [date_extractor |-> 1, query_analyzer |-> 2, hotel_searcher |-> 3,
   availability_checker |-> 4, booking_executor |-> 5, error_handler |-> 5,
   END |-> 6]

\* a step of a stage whose awaited calls return or raise moves the run to a
\* later stage or ends it; once a run has ended, the only step is the start
\* of another run, at the date extraction
StepInStageOrder ==
  /\ (StageStep /\ ~blocked') => StageRank[node'] > StageRank[node]
  /\ node = "END" => (node' = "date_extractor" /\ runs' = runs + 1)

\* C40: provided every call returns or raises, a run executes its stages in
\* the order date extraction, intent analysis, search, availability check,
\* then booking execution or error handling, each at most once, and ends;
\* no stage runs in a run that has ended
C40_RunsEndInStageOrder ==
  /\ [][StepInStageOrder]_vars
  /\ (node \notin {"idle", "END"}) ~> (node = "END" \/ blocked)

\* the last run the model makes has ended after its booking stage, none
\* of its calls having failed to return
C40_Witness ==
  /\ node = "END"
  /\ ~blocked
  /\ runs = MaxRuns
  /\ state.current_step = "booking_complete"

====
